---- MODULE Spec2Model ----
(***************************************************************************)
(* Runtime behaviour of a generated entity access object (DAL) of          *)
(* dalforge: a process-local cache over a relational store, optimistic     *)
(* concurrency on a version column, a circuit breaker around every store   *)
(* call, an access gate, and a pub/sub bus that carries cache              *)
(* invalidations between instances.                                        *)
(*                                                                         *)
(* The entity modelled has one unique column exposed by a get-by operation *)
(* (email) and one list ordered by id (the list queries of other list     *)
(* configurations are modelled apart); the DAL is generated for the        *)
(* example entity "user" or for an entity with another name.  Two DAL      *)
(* instances A and B share the store and the bus.  Callers are threads     *)
(* that run one operation at a time; an operation is split at its blocking *)
(* points (the breaker-wrapped store call and the cache work that follows  *)
(* it), so operations of different callers interleave there.               *)
(***************************************************************************)
EXTENDS Integers, Sequences, FiniteSets, Bags, TLC

VARIABLES
    rows,          \* the table: id -> stored row, NoEnt when there is no row
    nextId,        \* the AUTO_INCREMENT counter of the table
    cache,         \* per instance: d.cache entries under getCacheKey(id)
    colCache,      \* per instance: d.cache entries under "<table>_email:<v>"
    listCache,     \* per instance: d.listCache, list key -> cached ids
    countCache,    \* per instance: d.countCache, the cached count or -1
    entityName,    \* snake-cased name of the entity the DAL was generated for
    birthdate,     \* the table's birthdate column: id -> value the row of that id carries
    live,          \* the instances whose bus provider is subscribed
    listInvalidation, \* Caching.ListInvalidation of the entity: "flush" or "expire"
    bus,           \* messages in flight on the pub/sub transport
    cb,            \* per instance: the circuit breaker d.dbBreaker
    dbMode,        \* health of the Store Router / backing store
    blockedReads,  \* answer of configProvider.BlockedReads
    blockedWrites, \* answer of configProvider.BlockedWrites
    th,            \* per caller: the operation in progress or just returned
    heap,          \* the entity objects in memory: address -> field values
    cacheObj,      \* d.cache seen as pointers: id -> address of the cached object, or 0
    held,          \* the addresses of the entity objects the application holds
    tasks,         \* the publish goroutines of the bus provider that are running
    cacheErrorCounter, \* the provider's error metric
    isClosed,      \* RedisCacheProvider.isClosed
    async,         \* TRUE when the provider's publish goroutines are followed step by step
    handlers,      \* RedisCacheProvider.handlers: entity -> invalidation handler
    flushListHandlers, \* RedisCacheProvider.flushListHandlers: entity -> flush-list handler
    loops,         \* the receive loops: listenForInvalidations / listenForFlushList per entity
    invoked,       \* the handler call a receive loop made last
    closeCalls,    \* calls of Close so far
    groups,        \* ServerProvider.groups: group name -> entities, read and write handles
    entities,      \* DefaultServerProvider.config.Entities: entity name -> EntityConfig
    resolved,      \* what the last GetDatabase call returned
    conn           \* RedisCacheProvider.client and the Connect call that sets it

\* the objects behind the pointers the DAL stores and hands out
objects == <<heap, cacheObj, held>>

\* what a call of the provider's InvalidateCache / FlushListCache changes
publisher == <<tasks, cacheErrorCounter>>

\* the subscription side of the bus provider
subscriber == <<handlers, flushListHandlers, loops, invoked, closeCalls>>

\* the rest of the bus provider
transport == <<isClosed, async, conn, subscriber>>

provider == <<publisher, transport>>

\* the Store Router: the two server providers and the last resolution
router == <<groups, entities, resolved>>

\* the state added to the DAL's caches, store and bus
ext == <<objects, provider, router>>

vars == <<rows, nextId, cache, colCache, listCache, countCache, entityName, birthdate, ext, live, listInvalidation, bus, cb, dbMode,
          blockedReads, blockedWrites, th>>

----------------------------------------------------------------------------
(* Bounds of the model *)

MaxId == 1
MaxVersion == 2
Threshold == 1
MaxItemsCount == 2
MaxPageSize == 1

Ids == 1..MaxId

\* the ids the table has room for in the behaviour at hand
TableIds == DOMAIN rows
Inst == {"A", "B"}
Callers == {1, 2}
Emails == {"", "a"}

EntityNames == {"user", "account"}

NoEnt == [id |-> 0, version |-> 0, email |-> ""]

\* addresses of entity objects; 0 is the nil pointer
MaxObjects == 3

\* publish goroutines followed: those running and those that gave up
MaxTasks == 2

\* messages of the provider on their way at the same time
MaxPending == 1

\* shards of a sharded entity
MaxBuckets == 4

\* read and write instances of a server group or entity
MaxInstances == 2

\* shard keys 0..MaxKey, next to the largest ones
MaxKey == 7

\* calls of Close followed
MaxCloses == 2
Refs == 1..MaxObjects

\* no entity object has been allocated
ObjectsInit ==
    /\ heap = [r \in Refs |-> NoEnt]
    /\ cacheObj = [id \in 1..(MaxId + 1) |-> 0]
    /\ held = {}

\* a provider whose publish goroutine is taken to run at once and to succeed
\* entity names as strings of characters: "test" and "test2"
BusEntities == {<<"t", "e", "s", "t">>, <<"t", "e", "s", "t", "2">>}

\* a receive loop is named by the kind of its channel and its entity
LoopIds == {"inv", "flush"} \X BusEntities

NoLoop == <<"none", <<>>>>

\* no callback (a nil map entry)
NoHandler == <<"none", <<>>>>

NoCall == [h |-> NoHandler, payload |-> ""]

\* a provider just built: no handler, no receive loop; per entity and kind
\* the loop's position and channel, the goroutines started for it and the
\* registration calls made
SubscriberInit ==
    /\ handlers = [e \in BusEntities |-> NoHandler]
    /\ flushListHandlers = [e \in BusEntities |-> NoHandler]
    /\ loops = [l \in LoopIds |-> [st |-> "none", channel |-> <<>>,
                                     started |-> 0, calls |-> 0]]
    /\ invoked = NoCall
    /\ closeCalls = 0

\* a provider as NewRedisCacheProvider returns it: Connect not yet called
NoConn == [pc |-> "idle", i |-> 0, backoff |-> 0, waits |-> <<>>,
           res |-> "none", lost |-> FALSE, calls |-> 0]

ProviderInit ==
    /\ tasks = EmptyBag
    /\ cacheErrorCounter = 0
    /\ isClosed = FALSE
    /\ async = FALSE
    /\ conn = NoConn
    /\ SubscriberInit

NoDb == <<>>

NoResult == [provider |-> "none", entity |-> "", op |-> "", key |-> <<>>,
             db |-> NoDb, err |-> "", shard |-> -1]

\* no server provider configured
RouterInit ==
    /\ groups = <<>>
    /\ entities = <<>>
    /\ resolved = NoResult

ExtInit == ObjectsInit /\ ProviderInit /\ RouterInit

Entities == [id : Ids, version : 0..MaxVersion, email : Emails]

\* keys of d.listCache for the list ordered by id: <<startID, pageSize>>
ListKeys == (0..MaxId) \X (1..MaxPageSize)

\* a list key with no entry
NoList == [found |-> FALSE, ids |-> <<>>]

----------------------------------------------------------------------------
(* Cache keys.  The single-entity key and the column->id key live in the   *)
(* same go-cache instance; the model keeps them in two maps and counts     *)
(* both for ItemCount.                                                     *)

\* key written and read by GetByEmail: "<table>_email:<value>"
GetCacheKey(table, v) == <<table, "email", v>>

\* key deleted by Update for a changed column: the prefix is the literal "user"
OldCacheKey(table, v) == <<"user", "email", v>>

ColKeys == {GetCacheKey(t, v) : t \in EntityNames, v \in Emails}

ItemCount(i) ==
    Cardinality({id \in DOMAIN cache[i] : cache[i][id] # NoEnt})
      + Cardinality({k \in ColKeys : colCache[i][k] # 0})

\* a setCached that stores nothing
setCachedSkipped(i, e) == cache

\* setCached: store a private copy unless the item ceiling is reached
setCached(i, e) ==
    IF ItemCount(i) < MaxItemsCount
    THEN [cache EXCEPT ![i][e.id] = e]
    ELSE cache

\* setCached applied after earlier deletions of the same handler: cm and cc
\* are the two maps as those deletions left them
setCachedIn(cm, cc, i, e) ==
    LET n == Cardinality({id \in DOMAIN cm[i] : cm[i][id] # NoEnt})
               + Cardinality({k \in ColKeys : cc[i][k] # 0})
    IN IF n < MaxItemsCount THEN [cm EXCEPT ![i][e.id] = e] ELSE cm

\* setCached for each entity of a list result, in order
RECURSIVE setCachedAll(_, _, _, _)
setCachedAll(cm, cc, i, seq) ==
    IF seq = <<>> THEN cm
    ELSE setCachedAll(setCachedIn(cm, cc, i, Head(seq)), cc, i, Tail(seq))

\* a FlushListCache that leaves the list cache as it is
FlushedListsNever(i) == listCache

\* d.listCache.Flush() and d.countCache.Flush() of FlushListCache and
\* onCacheFlushList, generated only for list invalidation "flush"
FlushedLists(i) ==
    IF listInvalidation = "flush"
    THEN [listCache EXCEPT ![i] = [k \in DOMAIN listCache[i] |-> NoList]]
    ELSE listCache

\* a FlushListCache that leaves the cached count in place
FlushedCountsNever(i) == countCache

FlushedCounts(i) ==
    IF listInvalidation = "flush"
    THEN [countCache EXCEPT ![i] = -1]
    ELSE countCache

----------------------------------------------------------------------------
(* Invalidation bus.  A message handed to the provider is modelled as one  *)
(* message in flight per subscribed instance (the publisher is subscribed  *)
(* to its own channel as well).                                            *)

InvMsg(to, id) == [to |-> to, kind |-> "inv", id |-> id, key |-> <<>>]
InvKeyMsg(to, k) == [to |-> to, kind |-> "invkey", id |-> 0, key |-> k]
FlushMsg(to) == [to |-> to, kind |-> "flush", id |-> 0, key |-> <<>>]

\* cacheProvider.InvalidateCache(table, getCacheKey(id))
PublishInvalidate(id) == {InvMsg(j, id) : j \in live}

\* cacheProvider.InvalidateCache(table, oldCacheKey)
PublishInvalidateKey(k) == {InvKeyMsg(j, k) : j \in live}

\* FlushListCache: cacheProvider.FlushListCache(table), generated only when
\* the entity's list invalidation is "flush"
PublishFlushList ==
    IF listInvalidation = "flush" THEN {FlushMsg(j) : j \in live} ELSE {}

\* RedisCacheProvider.InvalidateCache / FlushListCache: maxRetries := 3
maxRetries == 3

\* delay := 5 * time.Second
delay == 5

\* the goroutine started for one message: nothing attempted yet
Task(out) == [out |-> out, att |-> 0, st |-> "try", wait |-> 0]

\* the provider calls a mutation makes: one per non-empty set of messages
Made(calls) == Cardinality({k \in DOMAIN calls : calls[k] # {}})

RECURSIVE Started(_, _)
\* go func() { ... }() for every call
Started(ts, calls) ==
    IF calls = <<>>
    THEN ts
    ELSE Started(IF Head(calls) = {} THEN ts
                 ELSE ts (+) SetToBag({Task(Head(calls))}),
                 Tail(calls))

\* what a read of p.isClosed can give: the field is written by Close under
\* the mutex and read here without it, so a call after Close may still see
\* false
SeenClosed == IF isClosed THEN BOOLEAN ELSE {FALSE}

\* the DAL calls cacheProvider.InvalidateCache / FlushListCache once per
\* element of calls and ignores what they return.  A provider seen closed
\* counts an error and publishes nothing; otherwise a goroutine is started
\* per call and the call returns nil at once
Hand(calls) ==
    IF ~async
    THEN /\ bus' = bus \cup UNION {calls[k] : k \in DOMAIN calls}
         /\ UNCHANGED publisher
    ELSE /\ bus' = bus
         /\ cacheErrorCounter + BagCardinality(tasks) + Made(calls) <= MaxTasks
         /\ \E closed \in SeenClosed :
               IF closed
               THEN /\ cacheErrorCounter' = cacheErrorCounter + Made(calls)
                    /\ UNCHANGED tasks
               ELSE /\ tasks' = Started(tasks, calls)
                    /\ UNCHANGED cacheErrorCounter

----------------------------------------------------------------------------
(* Circuit breaker (sony/gobreaker, default MaxRequests = 1, Interval = 0) *)

\* a breaker as built: closed, and no sample of its state gauge yet, which
\* reads as 0
Closed == [state |-> "closed", fails |-> 0, expired |-> FALSE, gauge |-> 0]

\* a report that takes half-open for open
OnCircuitBreakerStateChangeCoarse(g, to) ==
    CASE to = "closed" -> 0
      [] to = "halfopen" -> 2
      [] to = "open" -> 2
      [] OTHER -> g

\* OnCircuitBreakerStateChange(name, from, to): the value of
\* circuit_breaker_state{breaker_name=name} after the call, g before it
OnCircuitBreakerStateChange(g, to) ==
    CASE to = "closed" -> 0
      [] to = "halfopen" -> 1
      [] to = "open" -> 2
      [] OTHER -> g

\* setState: a new generation in the state to, reported through the
\* OnStateChange setting
setState(b, to) ==
    [state |-> to, fails |-> 0, expired |-> FALSE,
     gauge |-> OnCircuitBreakerStateChange(b.gauge, to)]

\* a trip rule that fires one failure early
ReadyToTripEarly(fails) == fails >= Threshold

\* ReadyToTrip: counts.ConsecutiveFailures > Threshold
ReadyToTrip(fails) == fails > Threshold

\* a breaker for which only a nil error is a successful call
IsNilError(out) == out = "ok"

\* the breaker treats a nil error and ErrNotFound as a successful call
IsSuccessful(out) == out \in {"ok", "NotFound"}

\* beforeRequest: an open breaker whose timeout has elapsed becomes half-open
beforeRequest(b) ==
    IF b.state = "open" /\ b.expired
    THEN setState(b, "halfopen")
    ELSE b

\* an accounting that closes a half-open breaker whatever the outcome
afterRequestClosing(b, success) ==
    CASE b.state = "closed" /\ success -> [b EXCEPT !.fails = 0]
      [] b.state = "closed" /\ ~success ->
            IF ReadyToTrip(b.fails + 1)
            THEN setState(b, "open")
            ELSE [b EXCEPT !.fails = b.fails + 1]
      [] b.state = "halfopen" -> setState(b, "closed")
      [] OTHER -> b

\* afterRequest: account the outcome of a call that was let through
afterRequest(b, success) ==
    CASE b.state = "closed" /\ success -> [b EXCEPT !.fails = 0]
      [] b.state = "closed" /\ ~success ->
            IF ReadyToTrip(b.fails + 1)
            THEN setState(b, "open")
            ELSE [b EXCEPT !.fails = b.fails + 1]
      [] b.state = "halfopen" /\ success -> setState(b, "closed")
      [] b.state = "halfopen" /\ ~success ->
            setState(b, "open")
      [] OTHER -> b

\* dbBreaker.State(): the state a caller observes
BreakerState(b) == beforeRequest(b).state

\* dbBreaker.Execute(req): the result the caller sees for a request whose
\* own outcome would be out
ExecuteResult(b, out) ==
    IF beforeRequest(b).state = "open" THEN "BreakerOpen" ELSE out

\* dbBreaker.Execute(req): the breaker after the call
ExecuteBreaker(b, out) ==
    IF beforeRequest(b).state = "open"
    THEN beforeRequest(b)
    ELSE afterRequest(beforeRequest(b), IsSuccessful(out))

\* number of Store Router invocations made by one Execute with result res
Invoked(res) == IF res \in {"BreakerOpen", "InputError"} THEN 0 ELSE 1

----------------------------------------------------------------------------
(* Store Router and store calls.  Each operator gives the outcome of the   *)
(* private (unwrapped) method when it is run against the current table.    *)

\* dbProvider.GetDatabase fails
RouterFails == dbMode = "routerFail"

\* db.QueryRowContext / db.ExecContext fails
StoreFails == dbMode = "storeFail"

DbError == IF RouterFails THEN "RouterError" ELSE "StoreError"

Row(id) == IF id \in TableIds THEN rows[id] ELSE NoEnt

\* a SELECT that finds no row
getByIDEmpty(id) ==
    IF RouterFails \/ StoreFails THEN DbError ELSE "NotFound"

\* getByID: SELECT ... WHERE id = ?
getByID(id) ==
    IF RouterFails \/ StoreFails THEN DbError
    ELSE IF Row(id) = NoEnt THEN "NotFound" ELSE "ok"

\* getByEmail: SELECT ... WHERE email = ?
RowsByEmail(v) == {id \in TableIds : rows[id] # NoEnt /\ rows[id].email = v}

getByEmail(v) ==
    IF RouterFails \/ StoreFails THEN DbError
    ELSE IF RowsByEmail(v) = {} THEN "NotFound" ELSE "ok"

\* the unique index on email rejects a second row with the same value
Duplicate(id, v) == \E o \in TableIds : o # id /\ rows[o] # NoEnt /\ rows[o].email = v

\* an UPDATE whose WHERE clause does not compare the version
updateAnyVersion(e) ==
    IF RouterFails \/ StoreFails THEN DbError
    ELSE IF Row(e.id) = NoEnt THEN "NotFound"
    ELSE IF Duplicate(e.id, e.email) THEN "StoreError"
    ELSE "ok"

\* update: UPDATE ... SET email=?, version = version + 1 WHERE id = ? AND version = ?
update(e) ==
    IF RouterFails \/ StoreFails THEN DbError
    ELSE IF Row(e.id) = NoEnt \/ Row(e.id).version # e.version
         THEN "NotFound"
    ELSE IF Duplicate(e.id, e.email) THEN "StoreError"
    ELSE "ok"

\* SET version = version + 1
nextVersion(v) == v + 1

\* an Update that leaves the caller's version field as it was
keepVersion(e) == e

\* entity.version++ in Update after a successful write
bumpVersion(e) == [e EXCEPT !.version = e.version + 1]

\* create: INSERT; the store assigns the next id
create(e) ==
    IF RouterFails \/ StoreFails THEN DbError
    ELSE IF Duplicate(0, e.email) THEN "StoreError"
    ELSE "ok"

\* the rows selected by the list ordered by id:
\* WHERE id > startID (left out when startID is 0) ORDER BY id LIMIT pageSize
RECURSIVE Ascending(_)
Ascending(S) ==
    IF S = {} THEN <<>>
    ELSE LET lo == CHOOSE x \in S : \A y \in S : x <= y
         IN <<lo>> \o Ascending(S \ {lo})

Page(seq, n) == SubSeq(seq, 1, IF Len(seq) < n THEN Len(seq) ELSE n)

listById(startID, pageSize) ==
    LET ids == Ascending({id \in TableIds : rows[id] # NoEnt /\ (startID = 0 \/ id > startID)})
        page == Page(ids, pageSize)
    IN [k \in 1..Len(page) |-> rows[page[k]]]

\* ListConfig of a list: whether it has a where clause (birthdate < :birthdate),
\* its order column ("" when none is given) and its desc flag
ListConfigs == [where : BOOLEAN, order : {"", "birthdate"}, desc : BOOLEAN]

\* list_by_id and list_by_bday of the example entity
list_by_id == [where |-> FALSE, order |-> "", desc |-> FALSE]
list_by_bday == [where |-> TRUE, order |-> "birthdate", desc |-> TRUE]

\* listWhereQuery: the pagination predicate added to the where clause
listWhereQuery(isStartIdZero, list) ==
    IF list.desc /\ ~isStartIdZero /\ list.order # "" THEN "id < ?"
    ELSE IF ~list.desc /\ ~isStartIdZero THEN "id > ?"
    ELSE ""

\* the placeholders of listQuery: the where clause's, the pagination
\* predicate's and the one of LIMIT
Placeholders(isStartIdZero, list) ==
    (IF list.where THEN 1 ELSE 0)
      + (IF listWhereQuery(isStartIdZero, list) # "" THEN 1 ELSE 0) + 1

\* listQueryParams: the where parameters, then startID (unless 0), pageSize
listQueryParams(isStartIdZero, list) ==
    (IF list.where THEN 1 ELSE 0) + (IF isStartIdZero THEN 1 ELSE 2)

\* the rows the WHERE clause of listQuery selects
Selected(list, bound, startID) ==
    LET w == listWhereQuery(startID = 0, list)
    IN {id \in TableIds :
          /\ rows[id] # NoEnt
          /\ list.where => birthdate[id] < bound
          /\ w = "id < ?" => id < startID
          /\ w = "id > ?" => id > startID}

\* the ORDER BY clause of listQuery as its columns and directions:
\* "<order> DESC, id DESC", "<order>, id", or "id" when the list names no
\* order column
listQueryOrder(list) ==
    IF list.order # ""
    THEN IF list.desc
         THEN <<<<list.order, "DESC">>, <<"id", "DESC">>>>
         ELSE <<<<list.order, "ASC">>, <<"id", "ASC">>>>
    ELSE <<<<"id", "ASC">>>>

\* ORDER BY of listQuery: "<order> DESC, id DESC", "<order>, id", or "id"
\* when the list names no order column
OrderedBefore(list, a, b) ==
    IF list.order = "" THEN a < b
    ELSE IF list.desc
         THEN birthdate[a] > birthdate[b] \/ (birthdate[a] = birthdate[b] /\ a > b)
    ELSE birthdate[a] < birthdate[b] \/ (birthdate[a] = birthdate[b] /\ a < b)

RECURSIVE Ordered(_, _)
Ordered(list, S) ==
    IF S = {} THEN <<>>
    ELSE LET f == CHOOSE x \in S : \A y \in S \ {x} : OrderedBefore(list, x, y)
         IN <<f>> \o Ordered(list, S \ {f})

\* the private list method: QueryContext(query, params...) fails when the
\* parameters do not match the placeholders; otherwise the first pageSize
\* ids of the selected rows in the query's order
listPage(list, bound, startID, pageSize) ==
    IF RouterFails \/ StoreFails THEN [res |-> DbError, ids |-> <<>>]
    ELSE IF listQueryParams(startID = 0, list) # Placeholders(startID = 0, list)
         THEN [res |-> "StoreError", ids |-> <<>>]
    ELSE [res |-> "ok", ids |-> Page(Ordered(list, Selected(list, bound, startID)), pageSize)]

\* list and count queries: the outcome of the private method
query ==
    IF RouterFails \/ StoreFails THEN DbError ELSE "ok"

\* SELECT COUNT(*) of the list
countRows == Cardinality({id \in TableIds : rows[id] # NoEnt})

\* createBulk: input checks, then one INSERT of all the rows
BatchEmails(batch) == {batch[k].email : k \in 1..Len(batch)}

createBulk(batch) ==
    IF Len(batch) = 0 \/ \E k \in 1..Len(batch) : batch[k].id > 0 THEN "InputError"
    ELSE IF RouterFails \/ StoreFails THEN DbError
    ELSE IF \/ Cardinality(BatchEmails(batch)) < Len(batch)
            \/ \E v \in BatchEmails(batch) : Duplicate(0, v)
         THEN "StoreError"
    ELSE "ok"

\* the table after the store ran the multi-row INSERT of createBulk: the
\* rows get the next auto-increment ids, contiguous and in batch order
bulkInserted(batch) ==
    [id \in TableIds |->
        IF id \in nextId..(nextId + Len(batch) - 1)
        THEN [batch[id - nextId + 1] EXCEPT !.id = id]
        ELSE rows[id]]

\* result.LastInsertId() of a multi-row INSERT: the id of its first row
LastInsertId == nextId

\* ids assigned without the offset: every entity gets lastID
assignIDsNoOffset(batch, lastID) ==
    [k \in 1..Len(batch) |-> [batch[k] EXCEPT !.id = lastID]]

\* createBulk, "Assign generated IDs sequentially":
\* entities[i].ID = lastID + int64(i), i counted from 0
assignIDs(batch, lastID) ==
    [k \in 1..Len(batch) |-> [batch[k] EXCEPT !.id = lastID + (k - 1)]]

\* a delete that reports success when no row was deleted
deleteAnyCount(id) ==
    IF RouterFails \/ StoreFails THEN DbError ELSE "ok"

\* delete: DELETE ... WHERE id = ?
delete(id) ==
    IF RouterFails \/ StoreFails THEN DbError
    ELSE IF Row(id) = NoEnt THEN "NotFound" ELSE "ok"

----------------------------------------------------------------------------
(* Callers *)

Idle == [pc |-> "idle", op |-> "none", inst |-> "A", ent |-> NoEnt,
         arg |-> "", row |-> NoEnt, old |-> "", res |-> "none",
         calls |-> 0, idc |-> "none", colc |-> "none",
         key |-> <<0, 0>>, seq |-> <<>>, n |-> 0, lc |-> "none",
         list |-> "none", bound |-> 0]

\* a caller may start an operation when it is not in the middle of one
Ready(c) == th[c].pc \in {"idle", "done"}

\* the record of an operation that starts on instance i
Begin(op, i, e, arg) ==
    [Idle EXCEPT !.op = op, !.inst = i, !.ent = e, !.arg = arg]

Init ==
    /\ rows = [id \in Ids |-> NoEnt]
    /\ nextId = 1
    /\ cache = [i \in Inst |-> [id \in Ids |-> NoEnt]]
    /\ colCache = [i \in Inst |-> [k \in ColKeys |-> 0]]
    /\ listCache = [i \in Inst |-> [k \in ListKeys |-> NoList]]
    /\ countCache = [i \in Inst |-> -1]
    /\ entityName \in EntityNames
    /\ live = {"A"}
    /\ listInvalidation = "flush"
    /\ bus = {}
    /\ cb = [i \in Inst |-> Closed]
    /\ dbMode = "ok"
    /\ blockedReads = FALSE
    /\ blockedWrites = FALSE
    /\ th = [c \in Callers |-> Idle]
    /\ birthdate = [id \in Ids |-> 0]
    /\ ExtInit

----------------------------------------------------------------------------
(* Access gate *)

\* a gate that never refuses a write
BlockedWritesNever == FALSE

\* d.configProvider.BlockedWrites(table)
BlockedWrites == blockedWrites

\* d.configProvider.BlockedReads(table)
BlockedReads == blockedReads

----------------------------------------------------------------------------
(* Reads *)

\* a lookup that never finds the entity
getByIDUncached(i, id) == NoEnt

\* getByIDCached: the cached copy, or NoEnt on a miss
getByIDCached(i, id) == IF id \in DOMAIN cache[i] THEN cache[i][id] ELSE NoEnt

\* checkColumnsChanged: oldEmail is the existing value when it differs from
\* the entity's, and the zero value "" otherwise
checkColumnsChanged(existing, e) ==
    IF existing.email # e.email THEN existing.email ELSE ""

\* the operation r returns the error res (its locals are dropped)
Failed(r, res) ==
    [r EXCEPT !.pc = "done", !.res = res, !.row = NoEnt, !.old = ""]

\* the operation r returns entity e and a nil error
Returned(r, e) ==
    [r EXCEPT !.pc = "done", !.res = "ok", !.ent = e, !.row = NoEnt, !.old = ""]

\* what the operation r does once its GetByID has produced entity e
GotEntity(r, e) ==
    IF r.op \in {"Update", "StoreUpdate"}
    THEN [r EXCEPT !.pc = "uwrite", !.row = e,
                   !.old = checkColumnsChanged(e, r.ent)]
    ELSE Returned(r, e)

\* GetByID up to its cache lookup, run as part of the operation r
GetByIDLookup(r, i, id) ==
    IF BlockedReads THEN Failed(r, "Blocked")
    ELSE IF getByIDCached(i, id) # NoEnt
         THEN GotEntity([r EXCEPT !.idc = "hit"], getByIDCached(i, id))
    ELSE [r EXCEPT !.pc = "miss", !.idc = "miss"]

\* GetByID(ctx, id), first step: gate and single-entity cache lookup
GetByID(c, i, id) ==
    /\ Ready(c)
    /\ th' = [th EXCEPT ![c] =
                GetByIDLookup(Begin("GetByID", i, [NoEnt EXCEPT !.id = id], ""), i, id)]
    /\ UNCHANGED <<listCache, countCache, entityName, birthdate, ext, live, listInvalidation, rows, nextId, cache, colCache, bus, cb, dbMode,
                   blockedReads, blockedWrites>>

\* GetByID after a miss: dbBreaker.Execute(getByID)
GetByIDRead(c) ==
    LET r == th[c]
        i == r.inst
        out == getByID(r.ent.id)
        res == ExecuteResult(cb[i], out)
    IN /\ r.pc = "miss"
       /\ cb' = [cb EXCEPT ![i] = ExecuteBreaker(cb[i], out)]
       /\ th' = [th EXCEPT ![c] =
                   IF res = "ok"
                   THEN [r EXCEPT !.pc = "fill", !.row = Row(r.ent.id),
                                  !.calls = r.calls + 1]
                   ELSE Failed([r EXCEPT !.calls = r.calls + Invoked(res)], res)]
       /\ UNCHANGED <<listCache, countCache, entityName, birthdate, ext, live, listInvalidation, rows, nextId, cache, colCache, bus, dbMode,
                      blockedReads, blockedWrites>>

\* GetByID after the store read: setCached and return
GetByIDFill(c) ==
    LET r == th[c]
        i == r.inst
    IN /\ r.pc = "fill"
       /\ cache' = setCached(i, r.row)
       /\ th' = [th EXCEPT ![c] = GotEntity(r, r.row)]
       /\ UNCHANGED <<listCache, countCache, entityName, birthdate, ext, live, listInvalidation, rows, nextId, colCache, bus, cb, dbMode,
                      blockedReads, blockedWrites>>

\* GetByEmail(ctx, email), first step: gate and lookup of the email -> id entry;
\* a hit continues as GetByID(ctx, entityId)
GetByEmail(c, i, v) ==
    LET r == Begin("GetByEmail", i, NoEnt, v)
        entityId == colCache[i][GetCacheKey(entityName, v)]
    IN /\ Ready(c)
       /\ th' = [th EXCEPT ![c] =
                   IF BlockedReads THEN Failed(r, "Blocked")
                   ELSE IF entityId # 0
                        THEN GetByIDLookup([r EXCEPT !.colc = "hit",
                                                     !.ent.id = entityId],
                                           i, entityId)
                   ELSE [r EXCEPT !.pc = "emiss", !.colc = "miss"]]
       /\ UNCHANGED <<listCache, countCache, entityName, birthdate, ext, live, listInvalidation, rows, nextId, cache, colCache, bus, cb, dbMode,
                      blockedReads, blockedWrites>>

\* GetByEmail after a miss: dbBreaker.Execute(getByEmail)
GetByEmailRead(c) ==
    LET r == th[c]
        i == r.inst
        out == getByEmail(r.arg)
        res == ExecuteResult(cb[i], out)
    IN /\ r.pc = "emiss"
       /\ cb' = [cb EXCEPT ![i] = ExecuteBreaker(cb[i], out)]
       /\ th' = [th EXCEPT ![c] =
                   IF res = "ok"
                   THEN [r EXCEPT !.pc = "efill",
                                  !.row = rows[CHOOSE id \in RowsByEmail(r.arg) : TRUE],
                                  !.calls = r.calls + 1]
                   ELSE Failed([r EXCEPT !.calls = r.calls + Invoked(res)], res)]
       /\ UNCHANGED <<listCache, countCache, entityName, birthdate, ext, live, listInvalidation, rows, nextId, cache, colCache, bus, dbMode,
                      blockedReads, blockedWrites>>

\* GetByEmail after the store read: cache the email -> id entry and return
GetByEmailFill(c) ==
    LET r == th[c]
        i == r.inst
    IN /\ r.pc = "efill"
       /\ colCache' = [colCache EXCEPT
                         ![i][GetCacheKey(entityName, r.arg)] = r.row.id]
       /\ th' = [th EXCEPT ![c] = Returned(r, r.row)]
       /\ UNCHANGED <<listCache, countCache, entityName, birthdate, ext, live, listInvalidation, rows, nextId, cache, bus, cb, dbMode,
                      blockedReads, blockedWrites>>

----------------------------------------------------------------------------
(* Mutations *)

\* Update up to its first blocking call, for the operation record r
UpdateBegin(r) ==
    IF BlockedWrites THEN Failed(r, "Blocked")
    ELSE GetByIDLookup(r, r.inst, r.ent.id)

\* Update(ctx, entity), first step: write gate, then GetByID(entity.ID) for
\* the existing entity (the entity has get-by operations)
Update(c, i, e) ==
    LET r == Begin("Update", i, e, "")
    IN /\ Ready(c)
       /\ e.version < MaxVersion
       /\ th' = [th EXCEPT ![c] = UpdateBegin(r)]
       /\ UNCHANGED <<listCache, countCache, entityName, birthdate, ext, live, listInvalidation, rows, nextId, cache, colCache, bus, cb, dbMode,
                      blockedReads, blockedWrites>>

\* Update: dbBreaker.Execute(update); zero rows affected evicts the id's
\* entry and publishes its invalidation before ErrNotFound is returned
UpdateWrite(c) ==
    LET r == th[c]
        i == r.inst
        e == r.ent
        out == update(e)
        res == ExecuteResult(cb[i], out)
    IN /\ r.pc = "uwrite"
       /\ cb' = [cb EXCEPT ![i] = ExecuteBreaker(cb[i], out)]
       /\ rows' = IF res = "ok"
                  THEN [rows EXCEPT ![e.id] =
                                [e EXCEPT !.version = nextVersion(rows[e.id].version)]]
                  ELSE rows
       /\ cache' = IF res = "NotFound" /\ e.id \in DOMAIN cache[i]
                   THEN [cache EXCEPT ![i][e.id] = NoEnt]
                   ELSE cache
       /\ Hand(IF res = "NotFound" THEN <<PublishInvalidate(e.id)>> ELSE <<>>)
       /\ th' = [th EXCEPT ![c] =
                   IF res = "ok"
                   THEN [r EXCEPT !.pc = "upost", !.calls = r.calls + 1]
                   ELSE Failed([r EXCEPT !.calls = r.calls + Invoked(res)], res)]
       /\ UNCHANGED <<listCache, countCache, entityName, birthdate, objects, transport, router, live, listInvalidation, nextId, colCache, dbMode, blockedReads, blockedWrites>>

\* invalidateUniqueColumnsCache: the entries left after the old email's key
\* is deleted (nothing is deleted when oldEmail is "")
invalidateUniqueColumnsCache(i, old) ==
    IF old # ""
    THEN [colCache EXCEPT ![i][OldCacheKey(entityName, old)] = 0]
    ELSE colCache

\* Update after a successful write: invalidate the changed email key, the
\* entity key, flush the lists, bump the in-memory version, setCached
UpdatePost(c) ==
    LET r == th[c]
        i == r.inst
        e == r.ent
        bumped == bumpVersion(e)
        cc == invalidateUniqueColumnsCache(i, r.old)
        cm == [cache EXCEPT ![i][e.id] = NoEnt]
    IN /\ r.pc = "upost"
       /\ colCache' = cc
       /\ cache' = setCachedIn(cm, cc, i, bumped)
       /\ Hand(<<IF r.old # ""
                  THEN PublishInvalidateKey(OldCacheKey(entityName, r.old))
                  ELSE {},
                  PublishInvalidate(e.id), PublishFlushList>>)
       /\ listCache' = FlushedLists(i)
       /\ countCache' = FlushedCounts(i)
       /\ th' = [th EXCEPT ![c] = Returned(r, bumped)]
       /\ UNCHANGED <<entityName, birthdate, objects, transport, router, live, listInvalidation, rows, nextId, cb, dbMode, blockedReads, blockedWrites>>

\* Create up to its store call, for the operation record r
CreateBegin(r) ==
    IF BlockedWrites THEN Failed(r, "Blocked")
    ELSE IF r.ent.id > 0 THEN Failed(r, "InvalidArg")
    ELSE [r EXCEPT !.pc = "cexec"]

\* Create(ctx, entity), first step: write gate and id check
Create(c, i, e) ==
    LET r == Begin("Create", i, e, "")
    IN /\ Ready(c)
       /\ nextId \in TableIds
       /\ th' = [th EXCEPT ![c] = CreateBegin(r)]
       /\ UNCHANGED <<listCache, countCache, entityName, birthdate, ext, live, listInvalidation, rows, nextId, cache, colCache, bus, cb, dbMode,
                      blockedReads, blockedWrites>>

\* Create: dbBreaker.Execute(create); the store assigns the id
CreateExec(c) ==
    LET r == th[c]
        i == r.inst
        out == create(r.ent)
        res == ExecuteResult(cb[i], out)
    IN /\ r.pc = "cexec"
       /\ nextId \in TableIds
       /\ cb' = [cb EXCEPT ![i] = ExecuteBreaker(cb[i], out)]
       /\ rows' = IF res = "ok"
                  THEN [rows EXCEPT ![nextId] = [r.ent EXCEPT !.id = nextId]]
                  ELSE rows
       /\ nextId' = IF res = "ok" THEN nextId + 1 ELSE nextId
       /\ th' = [th EXCEPT ![c] =
                   IF res = "ok"
                   THEN [r EXCEPT !.pc = "cpost", !.ent.id = nextId, !.calls = 1]
                   ELSE Failed([r EXCEPT !.calls = Invoked(res)], res)]
       /\ UNCHANGED <<listCache, countCache, entityName, birthdate, ext, live, listInvalidation, cache, colCache, bus, dbMode, blockedReads, blockedWrites>>

\* Create after a successful insert: setCached and flush the lists
CreatePost(c) ==
    LET r == th[c]
        i == r.inst
    IN /\ r.pc = "cpost"
       /\ cache' = setCached(i, r.ent)
       /\ Hand(<<PublishFlushList>>)
       /\ listCache' = FlushedLists(i)
       /\ countCache' = FlushedCounts(i)
       /\ th' = [th EXCEPT ![c] = Returned(r, r.ent)]
       /\ UNCHANGED <<entityName, birthdate, objects, transport, router, live, listInvalidation, rows, nextId, colCache, cb, dbMode,
                      blockedReads, blockedWrites>>

\* Delete(ctx, entity), first step: write gate and id check
Delete(c, i, id) ==
    LET r == Begin("Delete", i, [NoEnt EXCEPT !.id = id], "")
    IN /\ Ready(c)
       /\ th' = [th EXCEPT ![c] =
                   IF BlockedWrites THEN Failed(r, "Blocked")
                   ELSE IF id = 0 THEN Failed(r, "NotFound")
                   ELSE [r EXCEPT !.pc = "dexec"]]
       /\ UNCHANGED <<listCache, countCache, entityName, birthdate, ext, live, listInvalidation, rows, nextId, cache, colCache, bus, cb, dbMode,
                      blockedReads, blockedWrites>>

\* a Delete that evicts the entity's entry whether the store deleted or not
DeleteExecEvicts(c) ==
    LET r == th[c]
        i == r.inst
        id == r.ent.id
        out == delete(id)
        res == ExecuteResult(cb[i], out)
    IN /\ r.pc = "dexec"
       /\ cb' = [cb EXCEPT ![i] = ExecuteBreaker(cb[i], out)]
       /\ rows' = IF res = "ok" THEN [rows EXCEPT ![id] = NoEnt] ELSE rows
       /\ cache' = [cache EXCEPT ![i][id] = NoEnt]
       /\ th' = [th EXCEPT ![c] =
                   IF res = "ok" THEN [r EXCEPT !.pc = "dpost", !.calls = 1]
                   ELSE Failed([r EXCEPT !.calls = Invoked(res)], res)]
       /\ UNCHANGED <<listCache, countCache, entityName, birthdate, ext, live, listInvalidation, nextId, colCache, bus, dbMode,
                      blockedReads, blockedWrites>>

\* Delete: dbBreaker.Execute(delete)
DeleteExec(c) ==
    LET r == th[c]
        i == r.inst
        id == r.ent.id
        out == delete(id)
        res == ExecuteResult(cb[i], out)
    IN /\ r.pc = "dexec"
       /\ cb' = [cb EXCEPT ![i] = ExecuteBreaker(cb[i], out)]
       /\ rows' = IF res = "ok" THEN [rows EXCEPT ![id] = NoEnt] ELSE rows
       /\ th' = [th EXCEPT ![c] =
                   IF res = "ok" THEN [r EXCEPT !.pc = "dpost", !.calls = 1]
                   ELSE Failed([r EXCEPT !.calls = Invoked(res)], res)]
       /\ UNCHANGED <<listCache, countCache, entityName, birthdate, ext, live, listInvalidation, nextId, cache, colCache, bus, dbMode,
                      blockedReads, blockedWrites>>

\* Delete after a successful delete: InvalidateCache and flush the lists
DeletePost(c) ==
    LET r == th[c]
        i == r.inst
    IN /\ r.pc = "dpost"
       /\ cache' = [cache EXCEPT ![i][r.ent.id] = NoEnt]
       /\ Hand(<<PublishInvalidate(r.ent.id), PublishFlushList>>)
       /\ listCache' = FlushedLists(i)
       /\ countCache' = FlushedCounts(i)
       /\ th' = [th EXCEPT ![c] = Returned(r, r.ent)]
       /\ UNCHANGED <<entityName, birthdate, objects, transport, router, live, listInvalidation, rows, nextId, colCache, cb, dbMode,
                      blockedReads, blockedWrites>>

----------------------------------------------------------------------------
(* Lists, counts, bulk creation and Store *)

\* the cached copies of the entities of a cached list
CachedEntities(i, ids) == [k \in 1..Len(ids) |-> cache[i][ids[k]]]

\* a List that takes every cached id sequence as complete
missingNever(i, ids) == FALSE

\* missingEntries: getByIDCached returns nil for an id of the cached sequence
missingEntries(i, ids) == \E x \in 1..Len(ids) : getByIDCached(i, ids[x]) = NoEnt

\* ListById(ctx, startID, pageSize), first step: gate, lookup of the list's
\* ids and of every entity of the list in the single-entity cache
List(c, i, startID, pageSize) ==
    LET k == <<startID, pageSize>>
        r == [Begin("List", i, NoEnt, "") EXCEPT !.key = k]
        entry == listCache[i][k]
        complete == ~missingEntries(i, entry.ids)
    IN /\ Ready(c)
       /\ th' = [th EXCEPT ![c] =
                   IF BlockedReads THEN Failed(r, "Blocked")
                   ELSE IF entry.found /\ complete
                        THEN [r EXCEPT !.pc = "done", !.res = "ok", !.lc = "hit",
                                       !.seq = CachedEntities(i, entry.ids)]
                   ELSE [r EXCEPT !.pc = "lmiss", !.lc = "miss"]]
       /\ UNCHANGED <<listCache, countCache, entityName, birthdate, ext, live, listInvalidation, rows, nextId, cache, colCache, bus, cb, dbMode,
                      blockedReads, blockedWrites>>

\* List after a miss: dbBreaker.Execute(listById)
ListRead(c) ==
    LET r == th[c]
        i == r.inst
        res == ExecuteResult(cb[i], query)
    IN /\ r.pc = "lmiss"
       /\ cb' = [cb EXCEPT ![i] = ExecuteBreaker(cb[i], query)]
       /\ th' = [th EXCEPT ![c] =
                   IF res = "ok"
                   THEN [r EXCEPT !.pc = "lfill", !.calls = 1,
                                  !.seq = listById(r.key[1], r.key[2])]
                   ELSE Failed([r EXCEPT !.calls = Invoked(res)], res)]
       /\ UNCHANGED <<listCache, countCache, entityName, birthdate, ext, live, listInvalidation, rows, nextId, cache, colCache, bus, dbMode,
                      blockedReads, blockedWrites>>

\* List after the store read: setCached for each entity, then the ids are
\* stored under the list's key
ListFill(c) ==
    LET r == th[c]
        i == r.inst
    IN /\ r.pc = "lfill"
       /\ cache' = setCachedAll(cache, colCache, i, r.seq)
       /\ listCache' = [listCache EXCEPT ![i][r.key] =
                           [found |-> TRUE,
                            ids |-> [k \in 1..Len(r.seq) |-> r.seq[k].id]]]
       /\ th' = [th EXCEPT ![c] = [r EXCEPT !.pc = "done", !.res = "ok"]]
       /\ UNCHANGED <<countCache, entityName, birthdate, ext, live, listInvalidation, rows, nextId, colCache, bus, cb, dbMode,
                      blockedReads, blockedWrites>>

\* CountListById(ctx), first step: gate and lookup of the cached count
Count(c, i) ==
    LET r == Begin("Count", i, NoEnt, "")
    IN /\ Ready(c)
       /\ th' = [th EXCEPT ![c] =
                   IF BlockedReads THEN Failed(r, "Blocked")
                   ELSE IF countCache[i] # -1
                        THEN [r EXCEPT !.pc = "done", !.res = "ok", !.lc = "hit",
                                       !.n = countCache[i]]
                   ELSE [r EXCEPT !.pc = "kmiss", !.lc = "miss"]]
       /\ UNCHANGED <<listCache, countCache, entityName, birthdate, ext, live, listInvalidation, rows, nextId, cache, colCache, bus, cb, dbMode,
                      blockedReads, blockedWrites>>

\* Count after a miss: dbBreaker.Execute(countListById)
CountRead(c) ==
    LET r == th[c]
        i == r.inst
        res == ExecuteResult(cb[i], query)
    IN /\ r.pc = "kmiss"
       /\ cb' = [cb EXCEPT ![i] = ExecuteBreaker(cb[i], query)]
       /\ th' = [th EXCEPT ![c] =
                   IF res = "ok"
                   THEN [r EXCEPT !.pc = "kfill", !.calls = 1, !.n = countRows]
                   ELSE Failed([r EXCEPT !.calls = Invoked(res)], res)]
       /\ UNCHANGED <<listCache, countCache, entityName, birthdate, ext, live, listInvalidation, rows, nextId, cache, colCache, bus, dbMode,
                      blockedReads, blockedWrites>>

\* Count after the store read: the count is cached
CountFill(c) ==
    LET r == th[c]
        i == r.inst
    IN /\ r.pc = "kfill"
       /\ countCache' = [countCache EXCEPT ![i] = r.n]
       /\ th' = [th EXCEPT ![c] = [r EXCEPT !.pc = "done", !.res = "ok"]]
       /\ UNCHANGED <<listCache, entityName, birthdate, ext, live, listInvalidation, rows, nextId, cache, colCache, bus, cb, dbMode,
                      blockedReads, blockedWrites>>

\* FlushListCache(), called by the application: both caches are flushed and
\* the flush is published when list invalidation is "flush"; the generated
\* body is empty otherwise
FlushListCache(c, i) ==
    LET r == Begin("FlushListCache", i, NoEnt, "")
    IN /\ Ready(c)
       /\ listCache' = FlushedLists(i)
       /\ countCache' = FlushedCounts(i)
       /\ Hand(<<PublishFlushList>>)
       /\ th' = [th EXCEPT ![c] = [r EXCEPT !.pc = "done", !.res = "ok"]]
       /\ UNCHANGED <<entityName, birthdate, objects, transport, router, live, listInvalidation, rows, nextId, cache, colCache, cb, dbMode,
                      blockedReads, blockedWrites>>

\* CreateBulk(ctx, entities), first step: write gate
CreateBulk(c, i, batch) ==
    LET r == [Begin("CreateBulk", i, NoEnt, "") EXCEPT !.seq = batch]
    IN /\ Ready(c)
       /\ nextId + Len(batch) - 1 \in TableIds
       /\ th' = [th EXCEPT ![c] =
                   IF BlockedWrites THEN Failed(r, "Blocked")
                   ELSE [r EXCEPT !.pc = "bexec"]]
       /\ UNCHANGED <<listCache, countCache, entityName, birthdate, ext, live, listInvalidation, rows, nextId, cache, colCache, bus, cb, dbMode,
                      blockedReads, blockedWrites>>

\* CreateBulk: dbBreaker.Execute(createBulk); ids are assigned in order
BulkExec(c) ==
    LET r == th[c]
        i == r.inst
        out == createBulk(r.seq)
        res == ExecuteResult(cb[i], out)
        made == assignIDs(r.seq, LastInsertId)
    IN /\ r.pc = "bexec"
       /\ nextId + Len(r.seq) - 1 \in TableIds
       /\ cb' = [cb EXCEPT ![i] = ExecuteBreaker(cb[i], out)]
       /\ rows' = IF res = "ok" THEN bulkInserted(r.seq) ELSE rows
       /\ nextId' = IF res = "ok" THEN nextId + Len(made) ELSE nextId
       /\ th' = [th EXCEPT ![c] =
                   IF res = "ok"
                   THEN [r EXCEPT !.pc = "bpost", !.seq = made, !.calls = 1]
                   ELSE Failed([r EXCEPT !.calls = Invoked(res)], res)]
       /\ UNCHANGED <<listCache, countCache, entityName, birthdate, ext, live, listInvalidation, cache, colCache, bus, dbMode, blockedReads, blockedWrites>>

\* CreateBulk after a successful insert: the lists are flushed
BulkPost(c) ==
    LET r == th[c]
        i == r.inst
    IN /\ r.pc = "bpost"
       /\ listCache' = FlushedLists(i)
       /\ countCache' = FlushedCounts(i)
       /\ Hand(<<PublishFlushList>>)
       /\ th' = [th EXCEPT ![c] = [r EXCEPT !.pc = "done", !.res = "ok"]]
       /\ UNCHANGED <<entityName, birthdate, objects, transport, router, live, listInvalidation, rows, nextId, cache, colCache, cb, dbMode,
                      blockedReads, blockedWrites>>

\* a Store that sends every entity to Create
routesToUpdateNever(e) == FALSE

\* Store: if entity.ID > 0
routesToUpdate(e) == e.id > 0

\* Store(ctx, entity): write gate, then Update for an entity with an id and
\* Create for one without; both check the write gate again
Store(c, i, e) ==
    LET r == Begin("Store", i, e, "")
    IN /\ Ready(c)
       /\ e.version < MaxVersion
       /\ e.id = 0 => nextId \in TableIds
       /\ th' = [th EXCEPT ![c] =
                   IF BlockedWrites THEN Failed(r, "Blocked")
                   ELSE IF routesToUpdate(e)
                        THEN GetByIDLookup([r EXCEPT !.op = "StoreUpdate"], i, e.id)
                   ELSE [r EXCEPT !.op = "StoreCreate", !.pc = "cexec"]]
       /\ UNCHANGED <<listCache, countCache, entityName, birthdate, ext, live, listInvalidation, rows, nextId, cache, colCache, bus, cb, dbMode,
                      blockedReads, blockedWrites>>

----------------------------------------------------------------------------
(* Bus delivery, cache expiry and the environment *)

\* a handler that leaves the entry in place
onCacheIgnored(i, id) == cache

\* onCacheInvalidated(key) for the key of an entity id: d.cache.Delete(key)
\* a handler that drops every cached entity
onCacheInvalidatedAll(i, id) == [cache EXCEPT ![i] = [k \in DOMAIN cache[i] |-> NoEnt]]

onCacheInvalidated(i, id) == [cache EXCEPT ![i][id] = NoEnt]

\* the receive loop of instance m.to runs the handler for message m:
\* onCacheInvalidated deletes the key, onCacheFlushList flushes the lists
Deliver(m) ==
    /\ m \in bus
    /\ bus' = bus \ {m}
    /\ cache' = IF m.kind = "inv" /\ m.id \in DOMAIN cache[m.to]
                THEN onCacheInvalidated(m.to, m.id)
                ELSE cache
    /\ listCache' = IF m.kind = "flush" THEN FlushedLists(m.to) ELSE listCache
    /\ countCache' = IF m.kind = "flush" THEN FlushedCounts(m.to) ELSE countCache
    /\ colCache' = IF m.kind = "invkey"
                   THEN [colCache EXCEPT ![m.to][m.key] = 0]
                   ELSE colCache
    /\ UNCHANGED <<entityName, birthdate, ext, live, listInvalidation, rows, nextId, cb, dbMode, blockedReads, blockedWrites, th>>

\* a single-entity entry reaches its expiration time
Expire(i, id) ==
    /\ cache[i][id] # NoEnt
    /\ cache' = [cache EXCEPT ![i][id] = NoEnt]
    /\ UNCHANGED <<listCache, countCache, entityName, birthdate, ext, live, listInvalidation, rows, nextId, colCache, bus, cb, dbMode,
                   blockedReads, blockedWrites, th>>

\* an email -> id entry reaches its expiration time
ExpireCol(i, k) ==
    /\ colCache[i][k] # 0
    /\ colCache' = [colCache EXCEPT ![i][k] = 0]
    /\ UNCHANGED <<listCache, countCache, entityName, birthdate, ext, live, listInvalidation, rows, nextId, cache, bus, cb, dbMode,
                   blockedReads, blockedWrites, th>>

\* the Store Router or the store starts or stops failing
SetDbMode(m) ==
    /\ dbMode # m
    /\ dbMode' = m
    /\ UNCHANGED <<listCache, countCache, entityName, birthdate, ext, live, listInvalidation, rows, nextId, cache, colCache, bus, cb,
                   blockedReads, blockedWrites, th>>

\* the Timeout of an open breaker elapses
BreakerTimeout(i) ==
    /\ cb[i].state = "open"
    /\ ~cb[i].expired
    /\ cb' = [cb EXCEPT ![i].expired = TRUE]
    /\ UNCHANGED <<listCache, countCache, entityName, birthdate, ext, live, listInvalidation, rows, nextId, cache, colCache, bus, dbMode,
                   blockedReads, blockedWrites, th>>

\* the config provider changes its answers
SetGate(r, w) ==
    /\ <<r, w>> # <<blockedReads, blockedWrites>>
    /\ blockedReads' = r
    /\ blockedWrites' = w
    /\ UNCHANGED <<listCache, countCache, entityName, birthdate, ext, live, listInvalidation, rows, nextId, cache, colCache, bus, cb, dbMode, th>>

----------------------------------------------------------------------------
(* Specifications *)

\* the entity a caller can pass to Update: its version is one the store has
\* handed out for that id
UpdateInputs ==
    {e \in [id : 0..MaxId, version : 0..MaxVersion, email : Emails] :
        IF Row(e.id) = NoEnt THEN e.version = 0
        ELSE e.version <= Row(e.id).version}

CreateInputs == [id : {0}, version : {0}, email : Emails]

\* steps that continue the operation caller c has in progress
Continue(c) ==
    \/ GetByIDRead(c)
    \/ GetByIDFill(c)
    \/ GetByEmailRead(c)
    \/ GetByEmailFill(c)
    \/ UpdateWrite(c)
    \/ UpdatePost(c)
    \/ CreateExec(c)
    \/ CreatePost(c)
    \/ DeleteExec(c)
    \/ DeletePost(c)

\* caller c starts a read on instance i
StartRead(c, i) ==
    \/ \E id \in Ids : GetByID(c, i, id)
    \/ \E v \in Emails : GetByEmail(c, i, v)

\* caller c starts a mutation on instance i
StartWrite(c, i) ==
    \/ \E e \in UpdateInputs : Update(c, i, e)
    \/ \E e \in CreateInputs : Create(c, i, e)
    \/ \E id \in 0..MaxId : Delete(c, i, id)

\* One instance with its bus subscription, one caller.
Next ==
    \/ StartRead(1, "A")
    \/ StartWrite(1, "A")
    \/ Continue(1)
    \/ \E m \in bus : Deliver(m)
    \/ \E id \in Ids : Expire("A", id)
    \/ \E k \in ColKeys : ExpireCol("A", k)

Spec == Init /\ [][Next]_vars

\* Two instances on one store and one bus; a caller on each, running
\* concurrently.  The two callers work on the first entity of the table:
\* the caller on A creates, reads, updates and deletes it, the caller on B
\* reads it by id and updates it.
InitTwo ==
    /\ Init!1 /\ Init!2 /\ Init!3 /\ Init!4 /\ Init!5 /\ Init!6
    /\ entityName = "user"
    /\ live = {"A", "B"}
    /\ listInvalidation = "expire"
    /\ bus = {} /\ cb = [i \in Inst |-> Closed] /\ dbMode = "ok"
    /\ blockedReads = FALSE /\ blockedWrites = FALSE
    /\ th = [c \in Callers |-> Idle]
    /\ birthdate = [id \in Ids |-> 0]
    /\ ExtInit

First(e) == e.id = 1

\* steps that continue an operation on the first entity
ContinueFirst(c) ==
    \/ GetByIDRead(c)
    \/ GetByIDFill(c)
    \/ UpdateWrite(c)
    \/ UpdatePost(c)
    \/ CreateExec(c)
    \/ CreatePost(c)
    \/ DeleteExec(c)
    \/ DeletePost(c)

NextTwo ==
    \/ \E e \in CreateInputs : nextId = 1 /\ Create(1, "A", e)
    \/ \E e \in UpdateInputs : First(e) /\ Update(1, "A", e)
    \/ Delete(1, "A", 1)
    \/ GetByID(1, "A", 1)
    \/ GetByID(2, "B", 1)
    \/ \E e \in UpdateInputs : First(e) /\ Update(2, "B", e)
    \/ \E c \in Callers : ContinueFirst(c)
    \/ \E m \in bus : Deliver(m)

SpecTwo == InitTwo /\ [][NextTwo]_vars

\* Two instances; every mutation runs on A and B only reads.  An operation
\* starts when no other operation is in progress, the bus delivers whenever
\* it likes.
NextSeq ==
    \/ \E e \in CreateInputs : Ready(2) /\ Create(1, "A", e)
    \/ \E e \in UpdateInputs : Ready(2) /\ Update(1, "A", e)
    \/ \E id \in Ids : Ready(2) /\ Delete(1, "A", id)
    \/ \E id \in Ids : Ready(2) /\ GetByID(1, "A", id)
    \/ \E id \in Ids : Ready(1) /\ GetByID(2, "B", id)
    \/ \E c \in Callers : ContinueFirst(c)
    \/ \E m \in bus : Deliver(m)
    \/ \E i \in Inst, id \in Ids : Expire(i, id)

SpecSeq == InitTwo /\ [][NextSeq]_vars

\* Two callers that update the first entity concurrently; the second caller
\* works on the same instance as the first or on the other one.
NextRace ==
    \/ \E e \in CreateInputs : nextId = 1 /\ Create(1, "A", e)
    \/ \E e \in UpdateInputs : First(e) /\ Update(1, "A", e)
    \/ \E e \in UpdateInputs, i \in Inst : First(e) /\ Update(2, i, e)
    \/ \E c \in Callers : GetByIDRead(c)
    \/ \E c \in Callers : GetByIDFill(c)
    \/ \E c \in Callers : UpdateWrite(c)
    \/ \E c \in Callers : UpdatePost(c)
    \/ CreateExec(1)
    \/ CreatePost(1)
    \/ \E m \in bus : Deliver(m)

SpecRace == InitTwo /\ [][NextRace]_vars

\* the DAL of the example entity
InitUser == Init /\ entityName = "user"

\* One instance, one caller; the store and its router fail and recover, and
\* the breaker's timeout elapses.
NextBreaker ==
    \/ StartRead(1, "A")
    \/ StartWrite(1, "A")
    \/ Continue(1)
    \/ \E m \in bus : Deliver(m)
    \/ \E m \in {"ok", "routerFail", "storeFail"} : SetDbMode(m)
    \/ BreakerTimeout("A")

SpecBreaker == InitUser /\ [][NextBreaker]_vars

\* the batches a caller passes to CreateBulk: empty, one entity, two
\* entities, and a batch with an entity that already has an id
BulkInputs ==
    {<<>>} \cup {<<e>> : e \in CreateInputs}
           \cup {<<[id |-> 0, version |-> 0, email |-> "a"],
                    [id |-> 0, version |-> 0, email |-> ""]>>,
                  <<[id |-> 1, version |-> 0, email |-> "a"]>>}

\* One instance, one caller; the config provider changes its answers.  The
\* caller creates, reads, updates and deletes the first entity whatever the
\* gate answers; it attempts CreateBulk and Store while the gate blocks
\* writes.
NextGate ==
    \/ GetByID(1, "A", 1)
    \/ \E v \in Emails : GetByEmail(1, "A", v)
    \/ \E k \in ListKeys : List(1, "A", k[1], k[2])
    \/ Count(1, "A")
    \/ \E e \in CreateInputs : nextId = 1 /\ Create(1, "A", e)
    \/ \E e \in UpdateInputs : First(e) /\ Update(1, "A", e)
    \/ Delete(1, "A", 1)
    \/ \E batch \in BulkInputs : blockedWrites /\ CreateBulk(1, "A", batch)
    \/ \E e \in UpdateInputs : blockedWrites /\ e.id <= 1 /\ Store(1, "A", e)
    \/ Continue(1)
    \/ ListRead(1) \/ ListFill(1)
    \/ CountRead(1) \/ CountFill(1)
    \/ \E m \in bus : Deliver(m)
    \/ \E r \in BOOLEAN, w \in BOOLEAN : SetGate(r, w)

SpecGate == InitUser /\ [][NextGate]_vars

----------------------------------------------------------------------------
(* Pagination: a caller reads a list page after page, passing 0 first and  *)
(* then the id of the last row of the page before, until a page is empty.  *)

MaxBirthdate == 1
PageIds == 1..(MaxId + 2)
PageSizes == 1..(MaxPageSize + 1)

PageRow(id) == [id |-> id, version |-> 0, email |-> ToString(id)]

\* a table of any subset of PageIds with any birthdates
InitPage ==
    /\ rows \in {[id \in PageIds |-> IF id \in S THEN PageRow(id) ELSE NoEnt] :
                   S \in SUBSET PageIds}
    /\ nextId = MaxId + 3
    /\ birthdate \in [PageIds -> 0..MaxBirthdate]
    /\ ExtInit
    /\ cache = [i \in Inst |-> [id \in PageIds |-> NoEnt]]
    /\ colCache = [i \in Inst |-> [k \in ColKeys |-> 0]]
    /\ listCache = [i \in Inst |-> [k \in ListKeys |-> NoList]]
    /\ countCache = [i \in Inst |-> -1]
    /\ entityName = "user"
    /\ live = {"A"}
    /\ listInvalidation = "flush"
    /\ bus = {}
    /\ cb = [i \in Inst |-> Closed]
    /\ dbMode = "ok"
    /\ blockedReads = FALSE
    /\ blockedWrites = FALSE
    /\ th = [c \in Callers |-> Idle]

\* the caller asks for the first page of a list
FirstPage(c, list, bound, pageSize) ==
    /\ Ready(c)
    /\ th' = [th EXCEPT ![c] =
                [Begin("Paginate", "A", NoEnt, "") EXCEPT
                    !.list = list, !.bound = bound, !.key = <<0, pageSize>>,
                    !.pc = "page"]]
    /\ UNCHANGED <<listCache, countCache, entityName, birthdate, ext, live, listInvalidation, rows, nextId, cache, colCache, bus, cb, dbMode,
                   blockedReads, blockedWrites>>

\* the page at the caller's cursor: an error or an empty page ends the loop,
\* any other page is appended and its last id becomes the cursor
NextPage(c) ==
    LET r == th[c]
        page == listPage(r.list, r.bound, r.key[1], r.key[2])
    IN /\ r.pc = "page"
       /\ th' = [th EXCEPT ![c] =
                   IF page.res # "ok" THEN Failed([r EXCEPT !.calls = r.calls + 1], page.res)
                   ELSE IF page.ids = <<>>
                        THEN [r EXCEPT !.pc = "done", !.res = "ok", !.calls = r.calls + 1]
                   ELSE [r EXCEPT !.seq = r.seq \o page.ids,
                                  !.key = <<page.ids[Len(page.ids)], r.key[2]>>,
                                  !.calls = r.calls + 1]]
       /\ UNCHANGED <<listCache, countCache, entityName, birthdate, ext, live, listInvalidation, rows, nextId, cache, colCache, bus, cb, dbMode,
                      blockedReads, blockedWrites>>

NextPaging ==
    \/ \E list \in ListConfigs, bound \in 0..(MaxBirthdate + 1), n \in PageSizes :
          FirstPage(1, list, bound, n)
    \/ NextPage(1)

SpecPage == InitPage /\ [][NextPaging]_vars

----------------------------------------------------------------------------
(* Lists and mutations on one instance: a table with room for a batch of   *)
(* two rows, list pages of one or two rows, and either list invalidation   *)
(* mode.                                                                   *)

BulkIds == 1..(MaxId + 1)

InitList ==
    /\ rows = [id \in BulkIds |-> NoEnt]
    /\ nextId = 1
    /\ cache = [i \in Inst |-> [id \in BulkIds |-> NoEnt]]
    /\ colCache = [i \in Inst |-> [k \in ColKeys |-> 0]]
    /\ listCache = [i \in Inst |-> [k \in {0} \X PageSizes |-> NoList]]
    /\ countCache = [i \in Inst |-> -1]
    /\ entityName = "user"
    /\ live = {"A"}
    /\ listInvalidation \in {"flush", "expire"}
    /\ bus = {}
    /\ cb = [i \in Inst |-> Closed]
    /\ dbMode = "ok"
    /\ blockedReads = FALSE
    /\ blockedWrites = FALSE
    /\ th = [c \in Callers |-> Idle]
    /\ birthdate = [id \in BulkIds |-> 0]
    /\ ExtInit

\* the entities a caller can pass to Create: without an id, with a positive
\* id and with a negative one
CreateArgs == [id : {-1, 0, 1}, version : {0}, email : Emails]

\* the entities a caller can pass to Update or Store: a copy of a stored row
\* with any email, or an entity without an id
StoreInputs ==
    {e \in [id : {0} \cup TableIds, version : 0..MaxVersion, email : Emails] :
        IF Row(e.id) = NoEnt THEN e.version = 0
        ELSE e.version = Row(e.id).version}

\* a flush-list message published by another process for this entity
ForeignFlush(i) ==
    /\ FlushMsg(i) \notin bus
    /\ bus' = bus \cup {FlushMsg(i)}
    /\ UNCHANGED <<listCache, countCache, entityName, birthdate, ext, live, listInvalidation, rows, nextId, cache, colCache, cb, dbMode,
                   blockedReads, blockedWrites, th>>

\* One instance, one caller, either list invalidation mode.  The caller
\* reads the first page of the list with any page size, counts, reads by
\* id, creates (one entity or a batch), deletes the first row and updates
\* it once; single-entity entries expire, and in mode "expire" another
\* process publishes flush-list messages.
NextList ==
    \/ \E id \in TableIds : GetByID(1, "A", id)
    \/ \E n \in PageSizes : List(1, "A", 0, n)
    \/ Count(1, "A")
    \/ \E e \in CreateArgs : Create(1, "A", e)
    \/ \E e \in StoreInputs : First(e) /\ e.version = 0 /\ Update(1, "A", e)
    \/ \E id \in {0, 1} : Delete(1, "A", id)
    \/ \E batch \in BulkInputs : CreateBulk(1, "A", batch)
    \/ GetByIDRead(1) \/ GetByIDFill(1)
    \/ UpdateWrite(1) \/ UpdatePost(1)
    \/ CreateExec(1) \/ CreatePost(1)
    \/ DeleteExec(1) \/ DeletePost(1)
    \/ ListRead(1) \/ ListFill(1)
    \/ CountRead(1) \/ CountFill(1)
    \/ BulkExec(1) \/ BulkPost(1)
    \/ \E m \in bus : Deliver(m)
    \/ \E id \in TableIds : Expire("A", id)
    \/ listInvalidation = "expire" /\ ForeignFlush("A")

SpecList == InitList /\ [][NextList]_vars

\* the DAL with the default list invalidation
InitFlush == InitList /\ listInvalidation = "flush"

\* One instance, one caller: rows are created, listed and read by email;
\* single-entity entries expire while the list's ids stay cached, and the
\* email mappings fill the cache up to its item ceiling.
NextMiss ==
    \/ \E n \in PageSizes : List(1, "A", 0, n)
    \/ \E v \in Emails : GetByEmail(1, "A", v)
    \/ \E e \in CreateInputs : Create(1, "A", e)
    \/ CreateExec(1) \/ CreatePost(1)
    \/ ListRead(1) \/ ListFill(1)
    \/ GetByIDRead(1) \/ GetByIDFill(1)
    \/ GetByEmailRead(1) \/ GetByEmailFill(1)
    \/ \E m \in bus : Deliver(m)
    \/ \E id \in TableIds : Expire("A", id)

SpecMiss == InitFlush /\ [][NextMiss]_vars

\* One instance subscribed to the bus, one caller, no other writer and no
\* expiry: the caller creates rows, updates the first one, reads by id,
\* lists and counts, and the instance's receive loop handles the messages
\* the instance published.
NextOwn ==
    \/ \E id \in TableIds : GetByID(1, "A", id)
    \/ \E n \in PageSizes : List(1, "A", 0, n)
    \/ Count(1, "A")
    \/ \E e \in CreateInputs : Create(1, "A", e)
    \/ \E e \in StoreInputs : First(e) /\ Update(1, "A", e)
    \/ GetByIDRead(1) \/ GetByIDFill(1)
    \/ UpdateWrite(1) \/ UpdatePost(1)
    \/ CreateExec(1) \/ CreatePost(1)
    \/ ListRead(1) \/ ListFill(1)
    \/ CountRead(1) \/ CountFill(1)
    \/ \E m \in bus : Deliver(m)

SpecOwn == InitFlush /\ [][NextOwn]_vars

\* One instance in either list invalidation mode and one caller that lists,
\* counts, creates rows and calls FlushListCache, while entries expire and
\* the receive loop handles the instance's own messages.
NextCache ==
    \/ \E n \in PageSizes : List(1, "A", 0, n)
    \/ Count(1, "A")
    \/ \E e \in CreateInputs : Create(1, "A", e)
    \/ FlushListCache(1, "A")
    \/ CreateExec(1) \/ CreatePost(1)
    \/ ListRead(1) \/ ListFill(1)
    \/ CountRead(1) \/ CountFill(1)
    \/ \E m \in bus : Deliver(m)
    \/ \E id \in TableIds : Expire("A", id)

SpecCache == InitList /\ [][NextCache]_vars

\* One instance, one caller that saves entities through Store and through
\* Create and Update directly, while the write gate closes and opens and
\* single-entity entries expire.
NextStore ==
    \/ \E e \in StoreInputs : Store(1, "A", e)
    \/ \E e \in CreateInputs : Create(1, "A", e)
    \/ \E e \in StoreInputs : e.id > 0 /\ Update(1, "A", e)
    \/ GetByIDRead(1) \/ GetByIDFill(1)
    \/ UpdateWrite(1) \/ UpdatePost(1)
    \/ CreateExec(1) \/ CreatePost(1)
    \/ \E m \in bus : Deliver(m)
    \/ \E id \in TableIds : Expire("A", id)
    \/ \E w \in BOOLEAN : SetGate(FALSE, w)

SpecStore == InitFlush /\ [][NextStore]_vars

----------------------------------------------------------------------------
(* Entity objects.  The operations of one instance are taken as whole      *)
(* steps, with the store healthy, and followed at the level of pointers:   *)
(* which object the cache points to and which objects the application      *)
(* holds, whose fields it may change at any time.                          *)

\* the addresses not in use
FreeRefs == Refs \ (held \cup {cacheObj[id] : id \in DOMAIN cacheObj})

\* the free addresses in the order they are handed out
Fresh == Ascending(FreeRefs)

\* d.cache.ItemCount() for the pointer view co of the cache of instance A
ObjItemCount(co) ==
    Cardinality({id \in DOMAIN co : co[id] # 0})
      + Cardinality({k \in ColKeys : colCache["A"][k] # 0})

\* the heap h once the object the cache pointed to under id is garbage
Dropped(h, co, id) ==
    IF co[id] # 0 THEN [h EXCEPT ![co[id]] = NoEnt] ELSE h

\* a setCached that stores the caller's pointer itself
setCachedShared(h, co, ref, c) ==
    IF ObjItemCount(co) < MaxItemsCount
    THEN [heap |-> Dropped(h, co, h[ref].id),
          cacheObj |-> [co EXCEPT ![h[ref].id] = ref]]
    ELSE [heap |-> h, cacheObj |-> co]

\* setCached(entity): copy := *entity; d.cache.Set(cacheKey, &copy, ...),
\* the copy being the new object at address c
setCachedCopy(h, co, ref, c) ==
    IF ObjItemCount(co) < MaxItemsCount
    THEN [heap |-> [Dropped(h, co, h[ref].id) EXCEPT ![c] = h[ref]],
          cacheObj |-> [co EXCEPT ![h[ref].id] = c]]
    ELSE [heap |-> h, cacheObj |-> co]

\* the application builds an entity that has no id yet
NewEntity(v) ==
    /\ FreeRefs # {}
    /\ heap' = [heap EXCEPT ![Fresh[1]] = [id |-> 0, version |-> 0, email |-> v]]
    /\ held' = held \cup {Fresh[1]}
    /\ UNCHANGED <<provider, router, cacheObj, rows, nextId, cache, colCache, listCache, countCache,
                   entityName, birthdate, live, listInvalidation, bus, cb, dbMode,
                   blockedReads, blockedWrites, th>>

\* the application changes a field of an entity it holds
SetField(ref, v) ==
    /\ ref \in held
    /\ heap[ref].email # v
    /\ heap' = [heap EXCEPT ![ref].email = v]
    /\ UNCHANGED <<provider, router, cacheObj, held, rows, nextId, cache, colCache, listCache,
                   countCache, entityName, birthdate, live, listInvalidation, bus,
                   cb, dbMode, blockedReads, blockedWrites, th>>

\* the application lets go of an entity
Release(ref) ==
    /\ ref \in held
    /\ held' = held \ {ref}
    /\ heap' = [heap EXCEPT ![ref] = NoEnt]
    /\ UNCHANGED <<provider, router, cacheObj, rows, nextId, cache, colCache, listCache, countCache,
                   entityName, birthdate, live, listInvalidation, bus, cb, dbMode,
                   blockedReads, blockedWrites, th>>

\* GetByID(id): getByIDCached returns a copy of the cached object; on a miss
\* the row is scanned into a new object, which is returned after setCached
\* stored a copy of it
GetByIDObj(id) ==
    /\ id \in DOMAIN cacheObj
    /\ IF cacheObj[id] # 0
       THEN /\ FreeRefs # {}
            /\ heap' = [heap EXCEPT ![Fresh[1]] = heap[cacheObj[id]]]
            /\ held' = held \cup {Fresh[1]}
            /\ UNCHANGED cacheObj
       ELSE /\ Row(id) # NoEnt
            /\ Cardinality(FreeRefs) >= 2
            /\ LET out == setCachedCopy([heap EXCEPT ![Fresh[1]] = Row(id)],
                                        cacheObj, Fresh[1], Fresh[2])
               IN /\ heap' = out.heap
                  /\ cacheObj' = out.cacheObj
            /\ held' = held \cup {Fresh[1]}
    /\ UNCHANGED <<provider, router, rows, nextId, cache, colCache, listCache, countCache,
                   entityName, birthdate, live, listInvalidation, bus, cb, dbMode,
                   blockedReads, blockedWrites, th>>

\* GetByEmail(v): with the email's id cached it is GetByID of that id; on a
\* miss the row is scanned into a new object, which is returned, and only
\* the email -> id entry is cached
GetByEmailObj(v) ==
    LET key == GetCacheKey(entityName, v)
    IN IF colCache["A"][key] # 0
       THEN GetByIDObj(colCache["A"][key])
       ELSE /\ RowsByEmail(v) # {}
            /\ FreeRefs # {}
            /\ LET id == CHOOSE x \in RowsByEmail(v) : TRUE
               IN /\ heap' = [heap EXCEPT ![Fresh[1]] = Row(id)]
                  /\ colCache' = [colCache EXCEPT !["A"][key] = id]
            /\ held' = held \cup {Fresh[1]}
            /\ UNCHANGED <<provider, router, cacheObj, rows, nextId, cache, listCache, countCache,
                           entityName, birthdate, live, listInvalidation, bus, cb,
                           dbMode, blockedReads, blockedWrites, th>>

\* ListById(0, 1): with the page's ids and entities cached the entities are
\* the copies getByIDCached returns; otherwise the rows are scanned into
\* new objects, which are returned after setCached stored a copy of each
ListObj ==
    LET k == <<0, 1>>
        entry == listCache["A"][k]
        hit == entry.found /\ \A x \in 1..Len(entry.ids) : cacheObj[entry.ids[x]] # 0
        page == listById(0, 1)
    IN /\ IF hit
          THEN /\ Cardinality(FreeRefs) >= Len(entry.ids)
               /\ heap' = [r \in Refs |->
                             IF \E x \in 1..Len(entry.ids) : Fresh[x] = r
                             THEN LET x == CHOOSE y \in 1..Len(entry.ids) : Fresh[y] = r
                                  IN heap[cacheObj[entry.ids[x]]]
                             ELSE heap[r]]
               /\ held' = held \cup {Fresh[x] : x \in 1..Len(entry.ids)}
               /\ UNCHANGED <<cacheObj, listCache>>
          ELSE /\ Cardinality(FreeRefs) >= 2 * Len(page)
               /\ IF page = <<>>
                  THEN UNCHANGED <<heap, cacheObj, held>>
                  ELSE LET out == setCachedCopy([heap EXCEPT ![Fresh[1]] = page[1]],
                                                cacheObj, Fresh[1], Fresh[2])
                       IN /\ heap' = out.heap
                          /\ cacheObj' = out.cacheObj
                          /\ held' = held \cup {Fresh[1]}
               /\ listCache' = [listCache EXCEPT !["A"][k] =
                                   [found |-> TRUE,
                                    ids |-> [x \in 1..Len(page) |-> page[x].id]]]
       /\ UNCHANGED <<provider, router, rows, nextId, cache, colCache, countCache, entityName,
                      birthdate, live, listInvalidation, bus, cb, dbMode,
                      blockedReads, blockedWrites, th>>

\* Create(entity) with the object the application passes: the insert sets
\* its id, setCached stores a copy, the lists are flushed
CreateObj(ref) ==
    /\ ref \in held
    /\ heap[ref].id = 0
    /\ nextId \in TableIds
    /\ create(heap[ref]) = "ok"
    /\ FreeRefs # {}
    /\ LET out == setCachedCopy([heap EXCEPT ![ref].id = nextId], cacheObj,
                                ref, Fresh[1])
       IN /\ heap' = out.heap
          /\ cacheObj' = out.cacheObj
    /\ rows' = [rows EXCEPT ![nextId] = [heap[ref] EXCEPT !.id = nextId]]
    /\ nextId' = nextId + 1
    /\ listCache' = FlushedLists("A")
    /\ countCache' = FlushedCounts("A")
    /\ Hand(<<PublishFlushList>>)
    /\ UNCHANGED <<held, transport, router, cache, colCache, entityName, birthdate, live,
                   listInvalidation, cb, dbMode, blockedReads, blockedWrites, th>>

\* Update(entity) with the object the application passes: the row is
\* written, the cached object is deleted, the entity's version field is
\* incremented and setCached stores a copy
UpdateObj(ref) ==
    LET e == heap[ref]
        old == checkColumnsChanged(Row(e.id), e)
        gone == [cacheObj EXCEPT ![e.id] = 0]
    IN /\ ref \in held
       /\ e.id \in TableIds
       /\ e.version < MaxVersion
       /\ update(e) = "ok"
       /\ FreeRefs # {} \/ cacheObj[e.id] # 0
       /\ LET h == [Dropped(heap, cacheObj, e.id) EXCEPT ![ref] = bumpVersion(e)]
              c == IF cacheObj[e.id] # 0 THEN cacheObj[e.id] ELSE Fresh[1]
              out == setCachedCopy(h, gone, ref, c)
          IN /\ heap' = out.heap
             /\ cacheObj' = out.cacheObj
       /\ rows' = [rows EXCEPT ![e.id] = bumpVersion(e)]
       /\ colCache' = invalidateUniqueColumnsCache("A", old)
       /\ listCache' = FlushedLists("A")
       /\ countCache' = FlushedCounts("A")
       /\ Hand(<<IF old # ""
                  THEN PublishInvalidateKey(OldCacheKey(entityName, old))
                  ELSE {},
                  PublishInvalidate(e.id), PublishFlushList>>)
       /\ UNCHANGED <<held, transport, router, nextId, cache, entityName, birthdate, live,
                      listInvalidation, cb, dbMode, blockedReads, blockedWrites, th>>

\* the cached object of an id reaches its expiration time
ExpireObj(id) ==
    /\ cacheObj[id] # 0
    /\ cacheObj' = [cacheObj EXCEPT ![id] = 0]
    /\ heap' = Dropped(heap, cacheObj, id)
    /\ UNCHANGED <<provider, router, held, rows, nextId, cache, colCache, listCache, countCache,
                   entityName, birthdate, live, listInvalidation, bus, cb, dbMode,
                   blockedReads, blockedWrites, th>>

NextObjects ==
    \/ \E v \in Emails : NewEntity(v)
    \/ \E ref \in Refs, v \in Emails : SetField(ref, v)
    \/ \E ref \in Refs : Release(ref)
    \/ \E id \in TableIds : GetByIDObj(id)
    \/ \E v \in Emails : GetByEmailObj(v)
    \/ ListObj
    \/ \E ref \in Refs : CreateObj(ref)
    \/ \E ref \in Refs : UpdateObj(ref)
    \/ \E id \in TableIds : ExpireObj(id)

\* one instance built with the cache provider that publishes nothing
InitObjects ==
    /\ rows = [id \in Ids |-> NoEnt]
    /\ nextId = 1
    /\ cache = [i \in Inst |-> [id \in Ids |-> NoEnt]]
    /\ colCache = [i \in Inst |-> [k \in ColKeys |-> 0]]
    /\ listCache = [i \in Inst |-> [k \in ListKeys |-> NoList]]
    /\ countCache = [i \in Inst |-> -1]
    /\ entityName = "user"
    /\ live = {}
    /\ listInvalidation = "flush"
    /\ bus = {}
    /\ cb = [i \in Inst |-> Closed]
    /\ dbMode = "ok"
    /\ blockedReads = FALSE
    /\ blockedWrites = FALSE
    /\ th = [c \in Callers |-> Idle]
    /\ birthdate = [id \in Ids |-> 0]
    /\ ExtInit

SpecObjects == InitObjects /\ [][NextObjects]_vars

----------------------------------------------------------------------------
(* Optimistic concurrency *)

\* caller c is about to run its conditional write with a version older than
\* the stored one
StaleWrite(c) ==
    /\ th[c].pc = "uwrite"
    /\ Row(th[c].ent.id) # NoEnt
    /\ Row(th[c].ent.id).version > th[c].ent.version

\* the Update of caller c has returned NotFound from its conditional write
\* (one store call after a cache hit for the existing entity, two after a miss)
UpdateNotFound(c) ==
    /\ th[c].pc = "done" /\ th[c].op = "Update" /\ th[c].res = "NotFound"
    /\ th[c].ent.id \in Ids
    /\ th[c].calls = IF th[c].idc = "hit" THEN 1 ELSE 2

\* C1: an Update that carries a version older than the stored one returns
\* NotFound, leaves the table as it is and evicts the id's entry on the
\* calling instance; the GetByID that the caller runs next on that instance
\* misses the cache, and a GetByID that reads the store returns the stored
\* row, whose version is above the stale one and never goes down.
C1_Step ==
    \A c \in Callers :
        LET r == th[c]
            id == r.ent.id
        IN /\ (StaleWrite(c) /\ th'[c] # r) =>
                 /\ th'[c].pc = "done" /\ th'[c].res = "NotFound"
                 /\ rows' = rows
                 /\ cache'[r.inst][id] = NoEnt
                 /\ Row(id).version >= r.ent.version + 1
           /\ (UpdateNotFound(c) /\ Row(id) # NoEnt) =>
                 /\ Row(id).version >= r.ent.version + 1
                 /\ cache[r.inst][id] = NoEnt
                 /\ (th'[c] # r /\ th'[c].op = "GetByID" /\ th'[c].ent.id = id
                        /\ th'[c].inst = r.inst) => th'[c].pc = "miss"
           /\ (r.pc = "miss" /\ r.op = "GetByID" /\ th'[c] # r /\ Row(id) # NoEnt) =>
                 /\ th'[c].pc = "fill" /\ th'[c].row = Row(id)
                 /\ th'[c].calls = 1
           /\ (r.pc = "fill" /\ r.op = "GetByID" /\ th'[c] # r) =>
                 /\ th'[c].pc = "done" /\ th'[c].res = "ok" /\ th'[c].ent = r.row
           /\ \A k \in Ids : (rows[k] # NoEnt /\ rows'[k] # NoEnt) =>
                                rows'[k].version >= rows[k].version

C1_Theorem == [][C1_Step]_vars

\* caller 2 got NotFound for version V while the other caller's Update had
\* moved the row to V + 1
C1_Witness ==
    /\ UpdateNotFound(2)
    /\ Row(1).version = th[2].ent.version + 1
    /\ th[1].pc = "done" /\ th[1].op = "Update" /\ th[1].res = "ok"
    /\ th[1].ent.version = Row(1).version

\* the Update of caller c has won the conditional write for version v of id
Won(c, id, v) ==
    /\ th[c].op = "Update" /\ th[c].ent.id = id
    /\ \/ th[c].pc = "upost" /\ th[c].ent.version = v
       \/ th[c].pc = "done" /\ th[c].res = "ok" /\ th[c].ent.version = v + 1

\* C2: of the Updates that carry the same version V of one id, the one whose
\* conditional write finds the row at V succeeds and moves it to V + 1; every
\* write that does not find the row at V returns NotFound and leaves the
\* table unchanged; two Updates never both succeed with the same V.
C2_Step ==
    \A c \in Callers :
        LET r == th[c]
            id == r.ent.id
        IN (r.pc = "uwrite" /\ th'[c] # r) =>
              IF Row(id) # NoEnt /\ Row(id).version = r.ent.version
              THEN /\ th'[c].pc = "upost"
                   /\ rows'[id].version = r.ent.version + 1
                   /\ rows'[id].email = r.ent.email
              ELSE /\ th'[c].pc = "done" /\ th'[c].res = "NotFound"
                   /\ rows' = rows

C2_OneWinner ==
    \A c \in Callers, d \in Callers, id \in Ids, v \in 0..MaxVersion :
        (Won(c, id, v) /\ Won(d, id, v)) => c = d

C2_Theorem == []C2_OneWinner /\ [][C2_Step]_vars

\* both callers reached the conditional write with the same version; caller 1
\* has won and caller 2, on the same instance, has got NotFound
C2_Witness ==
    /\ th[1].inst = th[2].inst
    /\ Won(1, 1, 0) /\ th[1].pc = "upost"
    /\ UpdateNotFound(2) /\ th[2].ent.version = 0
    /\ Row(1).version = 1

\* C3: the stored version of a row never decreases; it changes only in the
\* successful conditional write of an Update, by exactly one.  When that
\* Update returns, the caller's entity carries the version the write stored;
\* an Update that fails returns with the caller's version as it was passed.
C3_Step ==
    /\ \A id \in Ids :
          (rows[id] # NoEnt /\ rows'[id] # NoEnt /\ rows'[id] # rows[id]) =>
             /\ rows'[id].version = rows[id].version + 1
             /\ \E c \in Callers : /\ th[c].pc = "uwrite" /\ th'[c].pc = "upost"
                                    /\ th[c].ent.id = id
                                    /\ th[c].ent.version = rows[id].version
    /\ \A c \in Callers :
          LET r == th[c]
          IN /\ (r.pc = "uwrite" /\ th'[c].pc = "upost") =>
                   /\ rows'[r.ent.id].version = rows[r.ent.id].version + 1
                   /\ th'[c].ent = r.ent
             /\ (r.pc = "upost" /\ th'[c] # r) =>
                   /\ th'[c].pc = "done" /\ th'[c].res = "ok"
                   /\ th'[c].ent.version = r.ent.version + 1
             /\ (r.op = "Update" /\ r.pc \in {"miss", "fill", "uwrite"}
                   /\ th'[c].pc = "done") =>
                   /\ th'[c].res # "ok"
                   /\ th'[c].ent = r.ent
             /\ (r.op = "Update" /\ r.pc \in {"miss", "fill"} /\ th'[c].pc # "done") =>
                   th'[c].ent = r.ent

C3_Theorem == [][C3_Step]_vars

\* a second successful Update has returned: the row and the caller's entity
\* are both at version 2
C3_Witness ==
    \E c \in Callers :
        /\ th[c].pc = "done" /\ th[c].op = "Update" /\ th[c].res = "ok"
        /\ th[c].ent.version = 2 /\ Row(th[c].ent.id).version = 2

----------------------------------------------------------------------------
(* Coherence between instances *)

\* no operation is in progress and B has handled every message sent to it
Quiet ==
    /\ Ready(1) /\ Ready(2)
    /\ \A m \in bus : m.to # "B"

\* C4: when the mutations run on A have returned and B has applied every
\* message A published, B's cache holds no entry that differs from the
\* store, and GetByID(id) on B returns the stored row of id, or NotFound
\* when the row is deleted.
C4_Inv ==
    /\ Quiet => \A id \in Ids : cache["B"][id] \in {NoEnt, Row(id)}
    /\ th[2].pc = "fill" => th[2].row = Row(th[2].ent.id)

C4_Step ==
    LET r == th[2]
        id == r.ent.id
        n == th'[2]
    IN /\ (Quiet /\ n # r) =>
             /\ n.op = "GetByID" /\ n.inst = "B"
             /\ IF cache["B"][n.ent.id] # NoEnt
                THEN n.pc = "done" /\ n.res = "ok" /\ n.ent = Row(n.ent.id)
                ELSE n.pc = "miss"
       /\ (r.pc = "miss" /\ n # r) =>
             IF Row(id) = NoEnt
             THEN n.pc = "done" /\ n.res = "NotFound"
             ELSE n.pc = "fill" /\ n.row = Row(id)
       /\ (r.pc = "fill" /\ n # r) =>
             n.pc = "done" /\ n.res = "ok" /\ n.ent = Row(id)

C4_Theorem == []C4_Inv /\ [][C4_Step]_vars

\* A has updated the first entity, its messages are delivered, and a
\* GetByID on B, whose cache held the entity before the update, has returned
\* the new row
C4_Witness ==
    /\ Quiet
    /\ th[1].pc = "done" /\ th[1].op = "Update" /\ th[1].res = "ok"
    /\ th[2].pc = "done" /\ th[2].op = "GetByID" /\ th[2].res = "ok"
    /\ th[2].idc = "miss"
    /\ th[2].ent = Row(1) /\ Row(1).version = 2
    /\ cache["B"][1] = Row(1)

----------------------------------------------------------------------------
(* Circuit breaker *)

\* caller c runs the dbBreaker.Execute of its operation in this step
ExecStep(c) ==
    /\ th[c].pc \in {"miss", "emiss", "uwrite", "cexec", "dexec"}
    /\ th'[c] # th[c]

\* the record n is that of an operation whose store call failed
ExecFailed(n) == n.pc = "done" /\ n.res \in {"RouterError", "StoreError"}

\* C6: a closed breaker stays closed while it has counted at most Threshold
\* consecutive failures and is open once a call fails after Threshold
\* failures, a failure of the router to give a database included; while the
\* breaker is open a wrapped call returns the breaker-open error, invokes
\* neither router nor store and leaves table and breaker as they are.
C6_Inv ==
    \A i \in Inst : cb[i].state = "closed" => cb[i].fails <= Threshold

C6_Step ==
    \A c \in Callers :
        LET r == th[c]
            n == th'[c]
            b == cb[r.inst]
            b2 == cb'[r.inst]
        IN ExecStep(c) =>
            /\ BreakerState(b) = "open" =>
                  /\ n.pc = "done" /\ n.res = "BreakerOpen"
                  /\ n.calls = r.calls
                  /\ rows' = rows /\ nextId' = nextId
                  /\ b2 = b
            /\ (b.state = "closed" /\ ExecFailed(n)) =>
                  /\ n.calls = r.calls + 1
                  /\ IF b.fails < Threshold
                     THEN b2.state = "closed" /\ b2.fails = b.fails + 1
                     ELSE b2.state = "open"
            /\ (b.state = "closed" /\ dbMode # "ok") => ExecFailed(n)

C6_Theorem == []C6_Inv /\ [][C6_Step]_vars

\* the router fails, the breaker has opened and the caller's last call was
\* refused without a router call
C6_Witness ==
    /\ dbMode = "routerFail"
    /\ cb["A"].state = "open" /\ ~cb["A"].expired
    /\ th[1].pc = "done" /\ th[1].res = "BreakerOpen" /\ th[1].calls = 0

\* C7: the state a caller observes changes only in four ways: closed to open
\* by a failed call after Threshold failures, open to half-open when the
\* timeout elapses, half-open to closed by a call that does not fail, and
\* half-open to open by a call that fails; the call made in half-open is let
\* through to the router.
C7_Step ==
    /\ \A i \in Inst :
          LET s == BreakerState(cb[i])
              s2 == BreakerState(cb'[i])
              Call(P(_)) == \E c \in Callers :
                               ExecStep(c) /\ th[c].inst = i /\ P(th'[c])
              Fails(n) == ExecFailed(n)
              Passes(n) == ~ExecFailed(n) /\ n.res # "BreakerOpen"
          IN s # s2 =>
               \/ s = "closed" /\ s2 = "open" /\ cb[i].fails = Threshold /\ Call(Fails)
               \/ s = "open" /\ s2 = "halfopen" /\ th' = th
                     /\ cb'[i] = [cb[i] EXCEPT !.expired = TRUE]
               \/ s = "halfopen" /\ s2 = "closed" /\ Call(Passes)
               \/ s = "halfopen" /\ s2 = "open" /\ Call(Fails)
    /\ \A c \in Callers :
          LET r == th[c]
              n == th'[c]
          IN (ExecStep(c) /\ BreakerState(cb[r.inst]) = "halfopen") =>
               /\ n.res # "BreakerOpen"
               /\ n.calls = r.calls + 1
               /\ BreakerState(cb'[r.inst]) = IF ExecFailed(n) THEN "open" ELSE "closed"

C7_Theorem == [][C7_Step]_vars

\* the timeout of the open breaker has elapsed, the store is healthy again
\* and the caller is about to make the call that is let through
C7_Witness ==
    /\ cb["A"].state = "open" /\ cb["A"].expired
    /\ dbMode = "ok"
    /\ th[1].pc \in {"miss", "emiss", "uwrite", "cexec", "dexec"}

\* C8: a wrapped call that ends in NotFound leaves a closed breaker closed
\* without raising its failure count, and closes a half-open breaker.
C8_Step ==
    \A c \in Callers :
        LET r == th[c]
            n == th'[c]
            b == cb[r.inst]
            b2 == cb'[r.inst]
        IN (ExecStep(c) /\ n.pc = "done" /\ n.res = "NotFound") =>
             /\ b.state = "closed" => b2.state = "closed" /\ b2.fails <= b.fails
             /\ BreakerState(b) = "halfopen" => b2 = Closed

C8_Theorem == [][C8_Step]_vars

\* the breaker had counted a failure when an Update found no row to write:
\* it is closed with no failure counted
C8_Witness ==
    /\ th[1].pc = "done" /\ th[1].op = "Update" /\ th[1].res = "NotFound"
    /\ th[1].calls = 2
    /\ cb["A"] = Closed

----------------------------------------------------------------------------
(* Unique-column reads *)

\* C9: a GetByEmail(v) that finds neither the mapping of v nor the entity in
\* the cache reads the store once and, when it returns the entity, leaves
\* the mapping v -> id and the single-entity entry cached; a GetByEmail(v)
\* that finds both returns from the cache without a store call.
C9_Step ==
    \A c \in Callers :
        LET r == th[c]
            n == th'[c]
            i == r.inst
            key == GetCacheKey(entityName, r.arg)
        IN /\ (r.pc = "efill" /\ n # r /\ cache[i][r.row.id] = NoEnt) =>
                 /\ r.colc = "miss" /\ r.calls = 1
                 /\ n.pc = "done" /\ n.res = "ok" /\ n.ent = r.row
                 /\ colCache'[i][key] = r.row.id
                 /\ cache'[i][r.row.id] = r.row
           /\ (Ready(c) /\ n # r /\ n.op = "GetByEmail"
                 /\ colCache[n.inst][GetCacheKey(entityName, n.arg)] # 0
                 /\ cache[n.inst][colCache[n.inst][GetCacheKey(entityName, n.arg)]] # NoEnt) =>
                 /\ n.pc = "done" /\ n.res = "ok"
                 /\ n.colc = "hit" /\ n.idc = "hit" /\ n.calls = 0

C9_Claim == [][C9_Step]_vars

\* C10: when an Update that changes the email from a to b succeeds, the
\* mapping a -> id is gone from the instance's cache and an invalidation of
\* that mapping's key is published to every subscriber; a mapping of b that
\* the cache holds afterwards leads to the updated entity.
C10_Step ==
    \A c \in Callers :
        LET r == th[c]
            n == th'[c]
            i == r.inst
            a == r.row.email
            b == r.ent.email
        IN /\ (r.pc = "upost" /\ n # r /\ a # b) =>
                 /\ n.pc = "done" /\ n.res = "ok"
                 /\ colCache'[i][GetCacheKey(entityName, a)] = 0
                 /\ \A j \in live : InvKeyMsg(j, GetCacheKey(entityName, a)) \in bus'
           /\ (r.pc = "done" /\ r.op = "Update" /\ r.res = "ok" /\ n # r
                 /\ n.op = "GetByEmail" /\ n.arg = r.ent.email /\ n.inst = i
                 /\ n.colc = "hit") =>
                 n.ent.id = r.ent.id

C10_Claim == [][C10_Step]_vars

----------------------------------------------------------------------------
(* Access gate *)

ReadOps == {"GetByID", "GetByEmail", "List", "Count"}

WriteOps == {"Create", "Update", "Delete", "CreateBulk",
             "Store", "StoreUpdate", "StoreCreate"}

\* C5: an operation that starts while the gate blocks its kind (reads for
\* GetByID, GetByEmail, List and Count; writes for Create, Update, Delete,
\* CreateBulk and Store) returns the operation-blocked error in that step,
\* having looked up no cache and made no store call, and leaves the table,
\* the caches, the breaker and the bus as they were.
C5_Step ==
    \A c \in Callers :
        LET r == th[c]
            n == th'[c]
        IN (Ready(c) /\ n # r
              /\ \/ blockedReads /\ n.op \in ReadOps
                 \/ blockedWrites /\ n.op \in WriteOps) =>
             /\ n.pc = "done" /\ n.res = "Blocked"
             /\ n.calls = 0
             /\ n.idc = "none" /\ n.colc = "none" /\ n.lc = "none"
             /\ UNCHANGED <<rows, nextId, cache, colCache, listCache, countCache, cb, bus>>

C5_Theorem == [][C5_Step]_vars

\* the entity is stored and cached, its list and count are cached, the gate
\* blocks reads and writes, and a Store of the entity has been refused
C5_Witness ==
    /\ blockedReads /\ blockedWrites
    /\ Row(1) # NoEnt /\ cache["A"][1] = Row(1)
    /\ listCache["A"][<<0, 1>>].found /\ countCache["A"] = 1
    /\ th[1].pc = "done" /\ th[1].op = "Store" /\ th[1].res = "Blocked"

----------------------------------------------------------------------------
(* List pagination *)

\* the rows matching the list's predicate
Matching(list, bound) ==
    {id \in TableIds : rows[id] # NoEnt /\ (list.where => birthdate[id] < bound)}

\* the list's declared sort order: its sort column (id when it names none),
\* ascending or descending, ties broken by id
SortKey(list, id) == IF list.order = "" THEN id ELSE birthdate[id]

DeclaredBefore(list, a, b) ==
    IF list.desc
    THEN SortKey(list, a) > SortKey(list, b)
           \/ (SortKey(list, a) = SortKey(list, b) /\ a > b)
    ELSE SortKey(list, a) < SortKey(list, b)
           \/ (SortKey(list, a) = SortKey(list, b) /\ a < b)

RECURSIVE Declared(_, _)
Declared(list, S) ==
    IF S = {} THEN <<>>
    ELSE LET f == CHOOSE x \in S : \A y \in S \ {x} : DeclaredBefore(list, x, y)
         IN <<f>> \o Declared(list, S \ {f})

\* the caller's page loop has ended
Paged(c) == th[c].op = "Paginate" /\ th[c].pc = "done"

\* C11: paging a list from cursor 0 with the last id of each page as the
\* next cursor, until an empty page, returns every id matching the list's
\* predicate exactly once and in the list's declared sort order, for lists
\* sorted by id and for lists sorted by another column
C11_Claim ==
    \A c \in Callers :
        Paged(c) =>
            /\ th[c].res = "ok"
            /\ th[c].seq = Declared(th[c].list, Matching(th[c].list, th[c].bound))

----------------------------------------------------------------------------
(* List on a cached signature with a missing entity *)

\* caller c starts a List
ListStart(c) ==
    /\ Ready(c)
    /\ th'[c] # th[c]
    /\ th'[c].op = "List"

\* the list key has cached ids and one of them has no single-entity entry
Incomplete(i, k) ==
    /\ listCache[i][k].found
    /\ \E x \in 1..Len(listCache[i][k].ids) : cache[i][listCache[i][k].ids[x]] = NoEnt

\* seq is the first page of n rows of the table in id order
StorePage(seq, n) ==
    /\ \A x \in 1..Len(seq) : seq[x] # NoEnt /\ seq[x] = Row(seq[x].id)
    /\ \A x \in 1..Len(seq), y \in 1..Len(seq) : x < y => seq[x].id < seq[y].id
    /\ Len(seq) = IF countRows < n THEN countRows ELSE n
    /\ \A id \in TableIds :
          (rows[id] # NoEnt /\ \A x \in 1..Len(seq) : seq[x].id # id)
              => \A x \in 1..Len(seq) : seq[x].id < id

\* a List that finds its ids cached and an entity missing goes to the store
C12_Start ==
    \A c \in Callers :
        (ListStart(c) /\ ~BlockedReads /\ Incomplete(th'[c].inst, th'[c].key))
            => (th'[c].pc = "lmiss" /\ th'[c].seq = <<>>)

\* the page read after the miss is the store's page
C12_Read ==
    \A c \in Callers :
        (th[c].pc = "lmiss" /\ th'[c].pc = "lfill")
            => StorePage(th'[c].seq, th[c].key[2])

\* List returns the store's page and caches its ids under the list key
C12_Return ==
    \A c \in Callers :
        (th[c].pc = "lfill" /\ th'[c].pc = "done")
            => /\ th'[c].res = "ok"
               /\ th'[c].seq = th[c].seq
               /\ listCache'[th[c].inst][th[c].key] =
                     [found |-> TRUE,
                      ids |-> [x \in 1..Len(th[c].seq) |-> th[c].seq[x].id]]

\* every returned row is in the single-entity cache, or the cache is at its
\* item ceiling
C12_Fill ==
    \A c \in Callers :
        (th[c].pc = "lfill" /\ th'[c].pc = "done")
            => \A x \in 1..Len(th[c].seq) :
                  \/ cache'[th[c].inst][th[c].seq[x].id] = th[c].seq[x]
                  \/ ItemCount(th[c].inst)' >= MaxItemsCount

\* every returned row is in the single-entity cache
C12_FillAll ==
    \A c \in Callers :
        (th[c].pc = "lfill" /\ th'[c].pc = "done")
            => \A x \in 1..Len(th[c].seq) :
                  cache'[th[c].inst][th[c].seq[x].id] = th[c].seq[x]

\* C12: a List whose cached id sequence has an id without a single-entity
\* entry discards the partial reconstruction, queries the store and returns
\* exactly the store's page; it then caches the id list and every returned
\* row, a row being skipped only when the cache is at its item ceiling
C12_Theorem == [][C12_Start /\ C12_Read /\ C12_Return /\ C12_Fill]_vars

\* C12 as stated: the same, with every returned row cached again
C12_Claim == [][C12_Start /\ C12_Read /\ C12_Return /\ C12_FillAll]_vars

\* a List has read the store's page of two rows while the list key holds
\* two ids, one with its entity cached and one without
C12_Witness ==
    \E c \in Callers :
        /\ th[c].op = "List"
        /\ th[c].pc = "lfill"
        /\ Len(th[c].seq) = 2
        /\ Incomplete(th[c].inst, th[c].key)
        /\ \E x \in 1..Len(listCache[th[c].inst][th[c].key].ids) :
              cache[th[c].inst][listCache[th[c].inst][th[c].key].ids[x]] # NoEnt

----------------------------------------------------------------------------
(* Create and the single-entity cache *)

\* the Create of caller c returns successfully in this step
CreateReturns(c) ==
    /\ th[c].pc = "cpost"
    /\ th[c].op = "Create"
    /\ th'[c].pc = "done"

\* caller c, whose last operation was the successful operation op on an
\* entity, starts a GetByID of that entity's id
GetByIDAfter(c, op) ==
    /\ th[c].pc = "done"
    /\ th[c].op = op
    /\ th[c].res = "ok"
    /\ th'[c] # th[c]
    /\ th'[c].op = "GetByID"
    /\ th'[c].inst = th[c].inst
    /\ th'[c].arg = ""
    /\ th'[c].ent.id = th[c].ent.id

\* the returned entity has a non-zero id, the store holds it under that id
\* and, below the item ceiling, so does the instance's cache
C13_Create ==
    \A c \in Callers :
        CreateReturns(c) =>
            /\ th'[c].res = "ok"
            /\ th'[c].ent.id # 0
            /\ Row(th'[c].ent.id) = th'[c].ent
            /\ ItemCount(th[c].inst) < MaxItemsCount
                  => cache'[th[c].inst][th'[c].ent.id] = th'[c].ent

\* a GetByID of the created id that finds the entry still there is a cache
\* hit: no miss, no store read, and it returns the created values
C13_Hit ==
    \A c \in Callers :
        (GetByIDAfter(c, "Create") /\ cache[th[c].inst][th[c].ent.id] # NoEnt)
            => /\ th'[c].pc = "done"
               /\ th'[c].res = "ok"
               /\ th'[c].idc = "hit"
               /\ th'[c].calls = 0
               /\ th'[c].ent = th[c].ent

\* C13: after a successful Create the entity has a non-zero id assigned by
\* the store and, when the cache is below its item ceiling, the instance's
\* single-entity cache holds it; a GetByID of that id on the same instance
\* is then a cache hit, without a store read, returning the created values
C13_Theorem == [][C13_Create /\ C13_Hit]_vars

\* a Create has returned an entity with the id the store assigned and the
\* instance's cache holds that entity
C13_Witness ==
    \E c \in Callers :
        /\ th[c].op = "Create"
        /\ th[c].pc = "done"
        /\ th[c].res = "ok"
        /\ th[c].ent.id > 0
        /\ Row(th[c].ent.id) = th[c].ent
        /\ cache[th[c].inst][th[c].ent.id] = th[c].ent

----------------------------------------------------------------------------
(* Update and the single-entity cache *)

\* the Update of caller c returns successfully in this step
UpdateReturns(c) ==
    /\ th[c].pc = "upost"
    /\ th[c].op = "Update"
    /\ th'[c].pc = "done"

\* the list cache and the count cache of instance i are empty
ListsEmpty(i) ==
    /\ \A k \in DOMAIN listCache[i] : listCache[i][k] = NoList
    /\ countCache[i] = -1

\* when Update returns, the entity has the next version, the store holds
\* it, the cache below its ceiling holds it, the entity key's invalidation
\* is on the bus and the lists are flushed
C14_Update ==
    \A c \in Callers :
        UpdateReturns(c) =>
            /\ th'[c].res = "ok"
            /\ th'[c].ent = [th[c].ent EXCEPT !.version = th[c].ent.version + 1]
            /\ Row(th[c].ent.id) = th'[c].ent
            /\ \/ cache'[th[c].inst][th[c].ent.id] = th'[c].ent
               \/ ItemCount(th[c].inst)' >= MaxItemsCount
            /\ \A j \in live : InvMsg(j, th[c].ent.id) \in bus'
            /\ listInvalidation = "flush" => ListsEmpty(th[c].inst)'

\* a GetByID that follows the Update is a cache hit returning the updated
\* entity
C14_Hit ==
    \A c \in Callers :
        (GetByIDAfter(c, "Update") /\ ItemCount(th[c].inst) < MaxItemsCount)
            => /\ th'[c].pc = "done"
               /\ th'[c].res = "ok"
               /\ th'[c].idc = "hit"
               /\ th'[c].calls = 0
               /\ th'[c].ent = th[c].ent

\* C14: after a successful Update on an instance with no other writer and
\* its cache below the ceiling, the instance's cache holds the updated
\* entity with the new version, so a following GetByID is a cache hit that
\* returns the updated values; the entity key's invalidation has been
\* handed to the bus and the list and count caches have been flushed
C14_Claim == [][C14_Update /\ C14_Hit]_vars

\* the part of C14 that describes the moment Update returns
C14_AtReturn == [][C14_Update]_vars

----------------------------------------------------------------------------
(* Delete *)

\* caller c starts a Delete that the write gate lets through
DeleteStart(c) ==
    /\ Ready(c)
    /\ th'[c] # th[c]
    /\ th'[c].op = "Delete"
    /\ ~BlockedWrites

\* the Delete of caller c returns successfully in this step
DeleteReturns(c) ==
    /\ th[c].pc = "dpost"
    /\ th'[c].pc = "done"

\* Delete of id 0 returns NotFound and the store is not called
C15_Zero ==
    \A c \in Callers :
        (DeleteStart(c) /\ th'[c].ent.id = 0)
            => /\ th'[c].pc = "done"
               /\ th'[c].res = "NotFound"
               /\ th'[c].calls = 0
               /\ UNCHANGED <<rows, cb, cache, bus, listCache, countCache>>

\* a delete that removes no row returns NotFound
C15_NoRow ==
    \A c \in Callers :
        (th[c].pc = "dexec" /\ th'[c] # th[c] /\ th'[c].calls = 1
           /\ Row(th[c].ent.id) = NoEnt)
            => /\ th'[c].pc = "done"
               /\ th'[c].res = "NotFound"
               /\ rows' = rows

\* on success the row is gone, the id's entry is evicted and its
\* invalidation is on the bus
C15_Success ==
    \A c \in Callers :
        DeleteReturns(c) =>
            /\ th'[c].res = "ok"
            /\ Row(th[c].ent.id) = NoEnt
            /\ cache'[th[c].inst][th[c].ent.id] = NoEnt
            /\ \A j \in live : InvMsg(j, th[c].ent.id) \in bus'

\* with list invalidation "flush" the list and count caches are flushed
C15_Lists ==
    \A c \in Callers :
        (DeleteReturns(c) /\ listInvalidation = "flush")
            => ListsEmpty(th[c].inst)'

\* the list and count caches are flushed whatever the list invalidation
C15_ListsAlways ==
    \A c \in Callers :
        DeleteReturns(c) => ListsEmpty(th[c].inst)'

\* a GetByID of the deleted id misses the cache and, when the breaker lets
\* its store read through, returns NotFound
C15_After ==
    \A c \in Callers :
        /\ GetByIDAfter(c, "Delete") => th'[c].pc = "miss"
        /\ (th[c].op = "GetByID" /\ th[c].pc = "miss"
              /\ th'[c].calls = th[c].calls + 1
              /\ Row(th[c].ent.id) = NoEnt)
             => (th'[c].pc = "done" /\ th'[c].res = "NotFound")

\* C15: Delete with id 0 returns NotFound without calling the store; a
\* delete of zero rows returns NotFound; on success the row is gone from the
\* store, the id's entry is evicted on the calling instance, an invalidation
\* is handed to the bus, a following GetByID of the id returns NotFound and,
\* with list invalidation "flush", the list and count caches are flushed
C15_Theorem ==
    [][C15_Zero /\ C15_NoRow /\ C15_Success /\ C15_Lists /\ C15_After]_vars

\* C15 as stated: the list and count caches are flushed by every
\* successful Delete
C15_Claim ==
    [][C15_Zero /\ C15_NoRow /\ C15_Success /\ C15_ListsAlways /\ C15_After]_vars

\* a Delete has returned successfully: the row is gone, the entry evicted
\* and the invalidation in flight
C15_Witness ==
    \E c \in Callers :
        /\ th[c].op = "Delete"
        /\ th[c].pc = "done"
        /\ th[c].res = "ok"
        /\ th[c].ent.id > 0
        /\ Row(th[c].ent.id) = NoEnt
        /\ cache[th[c].inst][th[c].ent.id] = NoEnt
        /\ InvMsg(th[c].inst, th[c].ent.id) \in bus

----------------------------------------------------------------------------
(* List invalidation modes *)

Mutations == {"Create", "Update", "Delete", "CreateBulk"}

\* a step of a mutation of caller c
MutationStep(c) ==
    /\ th'[c] # th[c]
    /\ th'[c].op \in Mutations

\* a mutation of caller c returns successfully in this step
MutationReturns(c) ==
    /\ th[c].pc \in {"cpost", "upost", "dpost", "bpost"}
    /\ th[c].op \in Mutations
    /\ th'[c].pc = "done"

\* the flush-list messages in flight
FlushMessages == {m \in bus : m.kind = "flush"}

\* mode "flush": when a successful mutation returns, the instance's list and
\* count caches are empty and a flush-list message is on the bus
C16_Flush ==
    \A c \in Callers :
        (MutationReturns(c) /\ listInvalidation = "flush")
            => /\ th'[c].res = "ok"
               /\ ListsEmpty(th[c].inst)'
               /\ \A j \in live : FlushMsg(j) \in bus'

\* mode "expire": no step of a mutation changes the list or count cache or
\* publishes a flush-list message
C16_Expire ==
    \A c \in Callers :
        (MutationStep(c) /\ listInvalidation = "expire")
            => /\ UNCHANGED <<listCache, countCache>>
               /\ FlushMessages' = FlushMessages

\* mode "expire": handling a received flush-list message changes no cache
C16_Receive ==
    \A m \in bus :
        (m.kind = "flush" /\ bus' = bus \ {m} /\ listInvalidation = "expire")
            => UNCHANGED <<listCache, countCache, cache, colCache>>

\* C16: with list invalidation "flush", at the moment a successful Create,
\* Update, Delete or CreateBulk returns, the calling instance's list and
\* count caches are empty and a flush-list message has been handed to the
\* bus; with "expire", mutations leave the list and count caches unchanged
\* and publish no flush-list message, and a received flush-list message
\* changes nothing
C16_Theorem == [][C16_Flush /\ C16_Expire /\ C16_Receive]_vars

\* mode "expire": a mutation has returned successfully while a cached list
\* page and a cached count are still in place
C16_Witness ==
    \E c \in Callers :
        /\ listInvalidation = "expire"
        /\ th[c].op \in Mutations
        /\ th[c].pc = "done"
        /\ th[c].res = "ok"
        /\ \E k \in DOMAIN listCache[th[c].inst] :
              listCache[th[c].inst][k].found /\ listCache[th[c].inst][k].ids # <<>>
        /\ countCache[th[c].inst] # -1

----------------------------------------------------------------------------
(* List and Count caching *)

\* the ids of a sequence of entities, in order
IdsOf(seq) == [x \in 1..Len(seq) |-> seq[x].id]

\* caller c starts a Count
CountStart(c) ==
    /\ Ready(c)
    /\ th'[c] # th[c]
    /\ th'[c].op = "Count"

\* the list key has cached ids and every one of them has a cached entity
Complete(i, k) ==
    /\ listCache[i][k].found
    /\ \A x \in 1..Len(listCache[i][k].ids) : cache[i][listCache[i][k].ids[x]] # NoEnt

\* a List whose ids and entities are all cached returns them from the cache,
\* in the cached order, without a store query
C17_ListHit ==
    \A c \in Callers :
        (ListStart(c) /\ Complete(th'[c].inst, th'[c].key))
            => /\ th'[c].pc = "done" /\ th'[c].res = "ok"
               /\ th'[c].lc = "hit" /\ th'[c].calls = 0
               /\ IdsOf(th'[c].seq) = listCache[th'[c].inst][th'[c].key].ids
               /\ UNCHANGED <<cb, rows, cache, listCache>>

\* a List repeated with the same cursor and page size returns the ids the
\* call before it returned
C17_ListRepeat ==
    \A c \in Callers :
        (/\ ListStart(c) /\ Complete(th'[c].inst, th'[c].key)
         /\ th[c].op = "List" /\ th[c].res = "ok"
         /\ th[c].inst = th'[c].inst /\ th[c].key = th'[c].key)
            => IdsOf(th'[c].seq) = IdsOf(th[c].seq)

\* a Count that finds the count cached returns it without a store query, and
\* it is the count the call before it returned
C17_CountHit ==
    \A c \in Callers :
        (CountStart(c) /\ countCache[th'[c].inst] # -1)
            => /\ th'[c].pc = "done" /\ th'[c].res = "ok"
               /\ th'[c].lc = "hit" /\ th'[c].calls = 0
               /\ th'[c].n = countCache[th'[c].inst]
               /\ (th[c].op = "Count" /\ th[c].res = "ok") => th'[c].n = th[c].n
               /\ UNCHANGED <<cb, rows, countCache>>

\* a List or Count that directly follows the caller's FlushListCache misses
\* the cache
MissAfterFlush(c) ==
    (/\ th[c].op = "FlushListCache" /\ th[c].pc = "done"
     /\ ListStart(c) \/ CountStart(c))
        => th'[c].pc \in {"lmiss", "kmiss"} /\ th'[c].lc = "miss"

\* after a miss the store is queried, unless the breaker is open
C17_Query ==
    \A c \in Callers :
        (/\ th[c].pc \in {"lmiss", "kmiss"} /\ th'[c] # th[c]
         /\ beforeRequest(cb[th[c].inst]).state # "open")
            => th'[c].calls = 1

\* C17: a List (or Count) repeated with the same parameters, cursor and page
\* size, with no mutation, flush or expiry in between and every listed entity
\* still cached, is served from the cache without a store query and returns
\* the same ids in the same order (the same count); after a FlushListCache
\* with list invalidation "flush" the next such call is a cache miss that
\* queries the store
C17_Theorem ==
    [][/\ C17_ListHit /\ C17_ListRepeat /\ C17_CountHit /\ C17_Query
       /\ \A c \in Callers :
             listInvalidation = "flush" => MissAfterFlush(c)]_vars

\* C17 as stated: the call after FlushListCache is a cache miss whatever the
\* list invalidation mode
C17_Claim ==
    [][/\ C17_ListHit /\ C17_ListRepeat /\ C17_CountHit /\ C17_Query
       /\ \A c \in Callers : MissAfterFlush(c)]_vars

\* a repeated List of two rows has been served from the cache, and so has a
\* repeated Count
C17_Witness ==
    \E c \in Callers :
        /\ th[c].op = "Count" /\ th[c].pc = "done"
        /\ th[c].lc = "hit" /\ th[c].n = 2
        /\ \E k \in DOMAIN listCache["A"] :
              Complete("A", k) /\ Len(listCache["A"][k].ids) = 2

----------------------------------------------------------------------------
(* CreateBulk *)

\* the store call of caller c's CreateBulk succeeds in this step
BulkInserts(c) == th[c].pc = "bexec" /\ th'[c].pc = "bpost"

\* a successful CreateBulk of caller c returns in this step
BulkReturns(c) == th[c].pc = "bpost" /\ th'[c].pc = "done"

\* the entity at offset k - 1 gets the first inserted id plus that offset;
\* the ids are positive and distinct, and each is the id of the new row
\* that has the entity's values
C18_Ids ==
    \A c \in Callers :
        BulkInserts(c) =>
            LET batch == th[c].seq
                made == th'[c].seq
            IN /\ Len(batch) >= 1 /\ Len(made) = Len(batch)
               /\ \A k \in 1..Len(made) :
                     /\ made[k].id = nextId + (k - 1)
                     /\ made[k].id > 0
                     /\ made[k].email = batch[k].email
                     /\ rows[made[k].id] = NoEnt
                     /\ rows'[made[k].id] = made[k]
               /\ \A k \in 1..Len(made), l \in 1..Len(made) :
                     k # l => made[k].id # made[l].id
               /\ \A id \in TableIds :
                     (\A k \in 1..Len(made) : made[k].id # id) => rows'[id] = rows[id]

\* no step of a CreateBulk touches the single-entity cache, and its store
\* call leaves the list and count caches alone; the entities with their ids
\* are what the call returns
C18_Cache ==
    \A c \in Callers :
        /\ (th'[c] # th[c] /\ th'[c].op = "CreateBulk")
              => UNCHANGED <<cache, colCache>>
        /\ BulkInserts(c) => UNCHANGED <<listCache, countCache, bus>>
        /\ BulkReturns(c) => th'[c].res = "ok" /\ th'[c].seq = th[c].seq

\* the list and count caches are flushed when the CreateBulk returns
BulkFlushes(c) ==
    BulkReturns(c) => ListsEmpty(th[c].inst)'

\* C18: CreateBulk of N >= 1 unsaved entities, the store assigning contiguous
\* ids to the multi-row insert: the entity at offset i gets the first
\* inserted id + i, the ids are positive, pairwise distinct and identify the
\* stored rows with the entities' values; no bulk-created entity is put in
\* the single-entity cache, and the list and count caches are flushed once,
\* when list invalidation is "flush"
C18_Theorem ==
    [][/\ C18_Ids /\ C18_Cache
       /\ \A c \in Callers : listInvalidation = "flush" => BulkFlushes(c)]_vars

\* C18 as stated: the list and count caches are flushed in either mode
C18_Claim ==
    [][/\ C18_Ids /\ C18_Cache
       /\ \A c \in Callers : BulkFlushes(c)]_vars

\* a CreateBulk of two entities has returned them with two consecutive ids,
\* and neither is cached
C18_Witness ==
    \E c \in Callers :
        /\ th[c].op = "CreateBulk" /\ th[c].pc = "done" /\ th[c].res = "ok"
        /\ Len(th[c].seq) = 2
        /\ th[c].seq[1].id >= 1
        /\ th[c].seq[2].id = th[c].seq[1].id + 1
        /\ \A k \in 1..2 : rows[th[c].seq[k].id] = th[c].seq[k]
        /\ \A k \in 1..2 : cache[th[c].inst][th[c].seq[k].id] = NoEnt

----------------------------------------------------------------------------
(* Store *)

\* the operations that run Create's code and those that run Update's
CreateOps == {"Create", "StoreCreate"}
UpdateOps == {"Update", "StoreUpdate"}

\* an operation record without the name of the entry point
Unlabelled(r) == [r EXCEPT !.op = "none"]

\* caller c calls Store in this step
StoreStart(c) ==
    /\ Ready(c)
    /\ th'[c] # th[c]
    /\ th'[c].op \in {"Store", "StoreCreate", "StoreUpdate"}

\* Store starts as Create does for an entity with id 0 and as Update does
\* for one with a positive id, and changes nothing else
C19_Route ==
    \A c \in Callers :
        StoreStart(c) =>
            LET e == th'[c].ent
                i == th'[c].inst
            IN /\ Unlabelled(th'[c]) =
                    Unlabelled(IF e.id > 0
                               THEN UpdateBegin(Begin("Update", i, e, ""))
                               ELSE CreateBegin(Begin("Create", i, e, "")))
               /\ UNCHANGED <<rows, nextId, cache, colCache, listCache,
                              countCache, bus, cb>>

\* the insert and the return of Create, whether called directly or through
\* Store: the store's error is returned, or the row is inserted under the
\* next id and the same entity is returned with that id, cached, the lists
\* flushed
C19_Create ==
    \A c \in Callers :
        LET r == th[c]
            i == r.inst
            res == ExecuteResult(cb[i], create(r.ent))
        IN /\ (r.op \in CreateOps /\ r.pc = "cexec" /\ th'[c] # r) =>
                 /\ th'[c] = IF res = "ok"
                              THEN [r EXCEPT !.pc = "cpost", !.ent.id = nextId,
                                             !.calls = 1]
                              ELSE Failed([r EXCEPT !.calls = Invoked(res)], res)
                 /\ rows' = IF res = "ok"
                            THEN [rows EXCEPT ![nextId] = th'[c].ent]
                            ELSE rows
                 /\ UNCHANGED <<cache, colCache, listCache, countCache, bus>>
           /\ (r.op \in CreateOps /\ r.pc = "cpost" /\ th'[c] # r) =>
                 /\ th'[c] = [r EXCEPT !.pc = "done", !.res = "ok"]
                 /\ cache' = setCached(i, r.ent)
                 /\ ListsEmpty(i)'
                 /\ \A j \in live : FlushMsg(j) \in bus'
                 /\ UNCHANGED <<rows, nextId, colCache, cb>>

\* the read, the write and the return of Update, whether called directly or
\* through Store: an error of the read or of the write is returned, or the
\* row is written with the next version and the same entity is returned
\* with that version, cached, its invalidation published, the lists flushed
C19_Update ==
    \A c \in Callers :
        LET r == th[c]
            i == r.inst
            res == ExecuteResult(cb[i], update(r.ent))
        IN /\ (r.op \in UpdateOps /\ r.pc \in {"miss", "fill"} /\ th'[c] # r) =>
                 /\ th'[c].pc \in {"fill", "uwrite", "done"}
                 /\ th'[c].pc = "done" => th'[c].res \notin {"ok", "none"}
                 /\ th'[c].pc = "uwrite" => th'[c].row = Row(r.ent.id)
                 /\ UNCHANGED <<rows, nextId, listCache, countCache, bus>>
           /\ (r.op \in UpdateOps /\ r.pc = "uwrite" /\ th'[c] # r) =>
                 /\ th'[c] = IF res = "ok"
                              THEN [r EXCEPT !.pc = "upost", !.calls = r.calls + 1]
                              ELSE Failed([r EXCEPT !.calls = r.calls + Invoked(res)],
                                          res)
                 /\ rows' = IF res = "ok"
                            THEN [rows EXCEPT ![r.ent.id] = bumpVersion(r.ent)]
                            ELSE rows
                 /\ UNCHANGED <<nextId, listCache, countCache>>
           /\ (r.op \in UpdateOps /\ r.pc = "upost" /\ th'[c] # r) =>
                 /\ th'[c] = Returned(r, bumpVersion(r.ent))
                 /\ Row(r.ent.id) = th'[c].ent
                 /\ \/ cache'[i][r.ent.id] = th'[c].ent
                    \/ ItemCount(i)' >= MaxItemsCount
                 /\ \A j \in live : InvMsg(j, r.ent.id) \in bus'
                 /\ ListsEmpty(i)'
                 /\ UNCHANGED <<rows, nextId, cb>>

\* C19: Store(entity) has the effect and outcome of Create(entity) when
\* entity.id = 0 and of Update(entity) when entity.id > 0; on success it
\* returns the entity it was given, on failure the error of the routed
\* operation
C19_Theorem == [][C19_Route /\ C19_Create /\ C19_Update]_vars

\* a Store of an entity with an id has returned it with the next version,
\* the store holding that row, after a Store of an entity without an id
\* inserted a second row
C19_Witness ==
    \E c \in Callers :
        /\ th[c].op = "StoreUpdate" /\ th[c].pc = "done" /\ th[c].res = "ok"
        /\ th[c].ent.version = 1
        /\ Row(th[c].ent.id) = th[c].ent
        /\ cache[th[c].inst][th[c].ent.id] = th[c].ent
        /\ \A id \in TableIds : rows[id] # NoEnt

----------------------------------------------------------------------------
(* Create with an id *)

\* caller c calls Create in this step
CreateStart(c) ==
    /\ Ready(c)
    /\ th'[c] # th[c]
    /\ th'[c].op = "Create"

\* C20: Create requires id = 0: called with an entity whose id is not 0 it
\* returns an error and performs no store insert, no cache change and no
\* bus publish
C20_Claim ==
    [][\A c \in Callers :
          (CreateStart(c) /\ th'[c].ent.id # 0)
              => /\ th'[c].pc = "done"
                 /\ th'[c].res \notin {"ok", "none"}
                 /\ UNCHANGED <<rows, nextId, cache, colCache, listCache,
                                countCache, bus>>]_vars

\* a Create called with a positive id returns an error at once and changes
\* nothing
C20_Positive ==
    [][\A c \in Callers :
          (CreateStart(c) /\ th'[c].ent.id > 0)
              => /\ th'[c].pc = "done"
                 /\ th'[c].res \in {"Blocked", "InvalidArg"}
                 /\ UNCHANGED <<rows, nextId, cache, colCache, listCache,
                                countCache, bus>>]_vars

----------------------------------------------------------------------------
(* Objects shared with the cache *)

\* the field values of the object cached under id, NoEnt when there is none
CachedValue(id) == IF cacheObj[id] = 0 THEN NoEnt ELSE heap[cacheObj[id]]

\* the application changes a field of one object it holds in this step
FieldChanged ==
    \E ref \in held :
        /\ heap'[ref].email # heap[ref].email
        /\ \A r \in Refs \ {ref} : heap'[r] = heap[r]
        /\ UNCHANGED <<cacheObj, held, rows>>

\* no object the application holds is the object the cache points to
C21_Distinct ==
    \A id \in DOMAIN cacheObj : cacheObj[id] # 0 => cacheObj[id] \notin held

\* what the cache holds under an id are the values of that id's row
C21_Values ==
    \A id \in DOMAIN cacheObj : cacheObj[id] # 0 => CachedValue(id) = Row(id)

\* changing a field of a held object changes no cached value
C21_Frame ==
    FieldChanged => \A id \in DOMAIN cacheObj : CachedValue(id)' = CachedValue(id)

\* C21: callers never share an object with the cache: every entity returned
\* by GetByID, GetByEmail or List and every entity passed to Create or Update
\* is a different object from the one in the single-entity cache, so
\* changing its fields after the call does not change what a later cache
\* hit returns
C21_Theorem == [](C21_Distinct /\ C21_Values) /\ [][C21_Frame]_vars

\* the application holds an entity whose field it changed after the call
\* while the cache still holds the entity of that id as it was stored
C21_Witness ==
    \E ref \in held :
        /\ heap[ref].id \in DOMAIN cacheObj
        /\ cacheObj[heap[ref].id] # 0
        /\ heap[ref].version = CachedValue(heap[ref].id).version
        /\ heap[ref].email # CachedValue(heap[ref].id).email
        /\ CachedValue(heap[ref].id) = Row(heap[ref].id)

----------------------------------------------------------------------------
(* The publish goroutines of RedisCacheProvider                            *)

\* a loop that never gives up
retryForever(att) == TRUE

\* for i := 0; i < maxRetries; i++
retry(att) == att < maxRetries

\* one pass of the goroutine's loop: p.client.Publish(p.ctx, channel,
\* message).  With err == nil the message is on the transport and the
\* goroutine returns; otherwise it goes to time.Sleep(delay).  A closed
\* client publishes nothing
PublishAttempt(t, ok) ==
    /\ async
    /\ BagIn(t, tasks)
    /\ t.st = "try"
    /\ ok => ~isClosed
    /\ IF ok
       THEN /\ tasks' = tasks (-) SetToBag({t})
            /\ bus' = bus \cup t.out
       ELSE /\ tasks' = (tasks (-) SetToBag({t}))
                           (+) SetToBag({[t EXCEPT !.att = t.att + 1,
                                                   !.st = "sleep",
                                                   !.wait = delay]})
            /\ bus' = bus
    /\ UNCHANGED <<cacheErrorCounter, objects, transport, router, rows, nextId, cache,
                   colCache, listCache, countCache, entityName, birthdate,
                   live, listInvalidation, cb, dbMode, blockedReads,
                   blockedWrites, th>>

\* time.Sleep(delay) returns and the loop condition is evaluated: another
\* pass, or the loop is left, cacheErrorCounter.Inc() and the goroutine ends
PublishSleep(t) ==
    /\ async
    /\ BagIn(t, tasks)
    /\ t.st = "sleep"
    /\ IF retry(t.att)
       THEN /\ tasks' = (tasks (-) SetToBag({t}))
                           (+) SetToBag({[t EXCEPT !.st = "try", !.wait = 0]})
            /\ UNCHANGED cacheErrorCounter
       ELSE /\ tasks' = tasks (-) SetToBag({t})
            /\ cacheErrorCounter' = cacheErrorCounter + 1
    /\ UNCHANGED <<bus, objects, transport, router, rows, nextId, cache, colCache,
                   listCache, countCache, entityName, birthdate, live,
                   listInvalidation, cb, dbMode, blockedReads, blockedWrites,
                   th>>

\* instance A with a connected Redis provider, its goroutines followed,
\* over a table that takes one row
InitPublish ==
    /\ rows = [id \in {1} |-> NoEnt]
    /\ nextId = 1
    /\ cache = [i \in Inst |-> [id \in {1} |-> NoEnt]]
    /\ colCache = [i \in Inst |-> [k \in ColKeys |-> 0]]
    /\ listCache = [i \in Inst |-> [k \in ListKeys |-> NoList]]
    /\ countCache = [i \in Inst |-> -1]
    /\ entityName = "user"
    /\ live = {"A"}
    /\ listInvalidation \in {"flush", "expire"}
    /\ bus = {}
    /\ cb = [i \in Inst |-> Closed]
    /\ dbMode = "ok"
    /\ blockedReads = FALSE
    /\ blockedWrites = FALSE
    /\ th = [c \in Callers |-> Idle]
    /\ birthdate = [id \in {1} |-> 0]
    /\ ObjectsInit
    /\ tasks = EmptyBag
    /\ cacheErrorCounter = 0
    /\ isClosed = FALSE
    /\ async = TRUE
    /\ conn = NoConn
    /\ SubscriberInit
    /\ RouterInit

NextPublish ==
    \/ \E e \in CreateInputs : Create(1, "A", e)
    \/ \E e \in UpdateInputs : Update(1, "A", e)
    \/ \E id \in TableIds : Delete(1, "A", id)
    \/ GetByIDRead(1) \/ GetByIDFill(1)
    \/ UpdateWrite(1) \/ UpdatePost(1)
    \/ CreateExec(1) \/ CreatePost(1)
    \/ DeleteExec(1) \/ DeletePost(1)
    \/ \E t \in BagToSet(tasks) : \E ok \in BOOLEAN : PublishAttempt(t, ok)
    \/ \E t \in BagToSet(tasks) : PublishSleep(t)
    \/ \E m \in bus : Deliver(m)

SpecPublish == InitPublish /\ [][NextPublish]_vars

----------------------------------------------------------------------------
(* Publish failures *)

\* a step of a publish goroutine that puts nothing on the transport
FailedStep ==
    /\ tasks' # tasks
    /\ BagCardinality(tasks') <= BagCardinality(tasks)
    /\ bus' = bus

\* the goroutines started in this step
StartedNow == {t \in BagToSet(tasks') : CopiesIn(t, tasks') > CopiesIn(t, tasks)}

\* a goroutine that made its last attempt ends in this step
GivenUp ==
    \E t \in BagToSet(tasks) :
        /\ t.st = "sleep"
        /\ t.att = 3
        /\ tasks' = tasks (-) SetToBag({t})

\* the mutation returns success with the caches it leaves whatever becomes
\* of its messages, and the goroutines it started have attempted nothing yet
C22_Return ==
    \A c \in Callers :
        MutationReturns(c)
            => /\ th'[c].res = "ok"
               /\ th[c].op = "Delete" => cache'["A"][th[c].ent.id] = NoEnt
               /\ th[c].op \in {"Create", "Update"}
                     => cache'["A"][th'[c].ent.id] \in {NoEnt, Row(th'[c].ent.id)}
               /\ listInvalidation = "flush"
                     => /\ listCache' = FlushedLists("A")
                        /\ countCache' = FlushedCounts("A")
                        /\ StartedNow # {}
               /\ \A t \in StartedNow : t.att = 0 /\ t.st = "try"
               /\ UNCHANGED <<bus, cacheErrorCounter>>

\* a failed attempt, a sleep and giving up change neither a caller's result
\* nor a cache nor the store
C22_Silent ==
    FailedStep => UNCHANGED <<th, cache, colCache, listCache, countCache, rows>>

\* the error metric moves by one, when a goroutine ends after its third
\* failed attempt, and never otherwise
C22_Metric ==
    /\ GivenUp => cacheErrorCounter' = cacheErrorCounter + 1
    /\ cacheErrorCounter' # cacheErrorCounter => GivenUp

\* no goroutine attempts more than three times, and every sleep is of the
\* same length
C22_Bounded ==
    \A t \in BagToSet(tasks) :
        /\ t.att <= 3
        /\ t.st = "sleep" => \A u \in BagToSet(tasks) : u.st = "sleep" => u.wait = t.wait

\* C22: bus publish failures never reach the mutation caller: Create, Update
\* and Delete return success and leave the local caches as they do when the
\* publish succeeds, without waiting for the publish; a message is attempted
\* at most 3 times with a fixed delay, and after the last failed attempt the
\* provider's error metric is incremented once
C22_Theorem ==
    /\ []C22_Bounded
    /\ [][C22_Return /\ C22_Silent /\ C22_Metric]_vars

\* every attempt to publish the messages of a mutation has failed and was
\* given up, and the caller has its success and the entity in the cache
C22_Witness ==
    /\ cacheErrorCounter >= 1
    /\ tasks = EmptyBag
    /\ bus = {}
    /\ th[1].op \in {"Create", "Update"}
    /\ th[1].pc = "done"
    /\ th[1].res = "ok"
    /\ cache["A"][1] # NoEnt
    /\ cache["A"][1] = Row(1)

----------------------------------------------------------------------------
(* Received messages *)

\* the caches of instance i
Caches(i) ==
    [cache |-> cache[i], colCache |-> colCache[i],
     listCache |-> listCache[i], countCache |-> countCache[i]]

\* the caches S after the handler of message m has run: onCacheInvalidated
\* deletes the key it is given, onCacheFlushList flushes listCache and
\* countCache when the entity has list invalidation "flush"
Handled(S, m) ==
    CASE m.kind = "inv" ->
            IF m.id \in DOMAIN S.cache THEN [S EXCEPT !.cache[m.id] = NoEnt] ELSE S
      [] m.kind = "invkey" -> [S EXCEPT !.colCache[m.key] = 0]
      [] m.kind = "flush" ->
            IF listInvalidation = "flush"
            THEN [S EXCEPT !.listCache = [k \in DOMAIN S.listCache |-> NoList],
                           !.countCache = -1]
            ELSE S

\* the messages instance A can receive
Receivable ==
    {InvMsg("A", id) : id \in TableIds} \cup {InvKeyMsg("A", k) : k \in ColKeys}
        \cup {FlushMsg("A")}

\* the receive loop of m.to handles m in this step
Receives(m) == m \in bus /\ bus' = bus \ {m}

\* an invalidation evicts the named key of the receiving instance and
\* nothing else
C23_Evicts ==
    \A m \in bus :
        (Receives(m) /\ m.kind \in {"inv", "invkey"})
            => /\ Caches(m.to)' = Handled(Caches(m.to), m)
               /\ m.kind = "inv" /\ m.id \in DOMAIN cache[m.to]
                     => /\ cache'[m.to][m.id] = NoEnt
                        /\ \A k \in DOMAIN cache[m.to] \ {m.id} :
                              cache'[m.to][k] = cache[m.to][k]
                        /\ colCache' = colCache
               /\ m.kind = "invkey"
                     => /\ colCache'[m.to][m.key] = 0
                        /\ \A k \in DOMAIN colCache[m.to] \ {m.key} :
                              colCache'[m.to][k] = colCache[m.to][k]
                        /\ cache' = cache
               /\ UNCHANGED <<listCache, countCache>>
               /\ \A j \in Inst \ {m.to} : Caches(j)' = Caches(j)

\* a flush-list message empties the list and count caches of the receiving
\* instance
FlushEmpties(m) ==
    /\ \A k \in DOMAIN listCache[m.to] : listCache'[m.to][k] = NoList
    /\ countCache'[m.to] = -1
    /\ UNCHANGED <<cache, colCache>>

C23_Flushes ==
    \A m \in bus :
        (Receives(m) /\ m.kind = "flush")
            => /\ Caches(m.to)' = Handled(Caches(m.to), m)
               /\ IF listInvalidation = "flush"
                  THEN FlushEmpties(m)
                  ELSE UNCHANGED <<cache, colCache, listCache, countCache>>

\* handling a message twice leaves the caches that handling it once leaves
C23_Idempotent ==
    \A m \in Receivable :
        Handled(Handled(Caches("A"), m), m) = Handled(Caches("A"), m)

\* an invalidation and a flush handled in either order leave the same caches
C23_Commutes ==
    \A m \in Receivable : \A f \in Receivable :
        (m.kind # "flush" /\ f.kind = "flush")
            => Handled(Handled(Caches("A"), m), f) = Handled(Handled(Caches("A"), f), m)

\* C23 as amended: a received invalidate-single message evicts exactly the
\* named key from the receiving instance's cache; a received flush-list
\* message empties its list and count caches when the entity's list
\* invalidation is "flush" and changes nothing when it is "expire"; a message
\* applied twice gives the caches of applying it once, and an invalidate
\* and a flush message give the same caches in either order
C23_Theorem ==
    /\ [](C23_Idempotent /\ C23_Commutes)
    /\ [][C23_Evicts /\ C23_Flushes]_vars

\* C23: applying a flush-list message empties the receiving instance's list
\* and count caches (and an invalidate-single message evicts exactly the
\* named key)
C23_Claim ==
    [][C23_Evicts
       /\ \A m \in bus : (Receives(m) /\ m.kind = "flush") => FlushEmpties(m)]_vars

\* the instance has handled the invalidation and the flush that its own
\* Update published: the updated entity is evicted, the other entity is
\* still cached, the lists are empty
C23_Witness ==
    /\ listInvalidation = "flush"
    /\ th[1].op = "Update" /\ th[1].pc = "done" /\ th[1].res = "ok"
    /\ bus = {}
    /\ Row(1) # NoEnt /\ cache["A"][1] = NoEnt
    /\ cache["A"][2] # NoEnt
    /\ Caches("A").listCache = Handled(Caches("A"), FlushMsg("A")).listCache
    /\ countCache["A"] = -1

----------------------------------------------------------------------------
(* RedisCacheProvider: channels, handlers and receive loops                *)

\* the access object's own state, which the provider never touches
dal == <<rows, nextId, cache, colCache, listCache, countCache, entityName,
         birthdate, live, listInvalidation, cb, dbMode, blockedReads,
         blockedWrites, th, objects>>

BusKeys == {"key1", "key2"}

\* the callback the application registers for an entity's messages of a kind
Callback(kind, e) == <<kind, e>>

\* "cache_invalidation_" and "cache_flush_list_"
Prefix(kind) ==
    IF kind = "inv"
    THEN <<"c", "a", "c", "h", "e", "_", "i", "n", "v", "a", "l", "i", "d",
           "a", "t", "i", "o", "n", "_">>
    ELSE <<"c", "a", "c", "h", "e", "_", "f", "l", "u", "s", "h", "_", "l",
           "i", "s", "t", "_">>

\* one channel per entity for both kinds of message
SprintfEntity(prefix, e) == e

\* fmt.Sprintf("cache_invalidation_%s", entityName)
Sprintf(prefix, e) == prefix \o e

\* a message on a channel of the transport, on its way to receive loop to;
\* kind and entity recall the call that published it
Wire(to, channel, payload, kind, e) ==
    [to |-> to, channel |-> channel, payload |-> payload, kind |-> kind,
     entity |-> e]

\* the receive loops subscribed to a channel
Subscribed(channel) ==
    {l \in LoopIds : loops[l].st \in {"listening", "handling"}
                        /\ loops[l].channel = channel}

\* p.client.Publish(p.ctx, channel, message): one copy per subscriber of the
\* channel, heard by nobody when it has none
Published(kind, e, payload) ==
    LET channel == Sprintf(Prefix(kind), e)
    IN {Wire(l, channel, payload, kind, e) :
            l \in IF Subscribed(channel) = {} THEN {NoLoop} ELSE Subscribed(channel)}

\* the messages being published or on their way
Pending == BagCardinality(tasks) + Cardinality(bus)

\* provider.InvalidateCache(entityName, cacheKey)
RedisInvalidateCache(e, k) ==
    /\ async
    /\ Pending < MaxPending
    /\ Hand(<<Published("inv", e, k)>>)
    /\ UNCHANGED <<dal, router, transport>>

\* provider.FlushListCache(entityName): the message is the entity name
RedisFlushListCache(e) ==
    /\ async
    /\ Pending < MaxPending
    /\ Hand(<<Published("flush", e, "")>>)
    /\ UNCHANGED <<dal, router, transport>>

\* registration calls per entity and kind
MaxRegistrations == 2

\* a registration that takes every handler it is given and starts a loop
\* for it
OnCacheInvalidatedAgain(e, h) ==
    /\ async
    /\ loops[<<"inv", e>>].calls < MaxRegistrations
    /\ handlers' = [handlers EXCEPT ![e] = h]
    /\ loops' = [loops EXCEPT ![<<"inv", e>>] =
                    [st |-> "listening", channel |-> Sprintf(Prefix("inv"), e),
                     started |-> @.started + 1, calls |-> @.calls + 1]]
    /\ UNCHANGED <<dal, router, bus, publisher, isClosed, async, conn, flushListHandlers,
                   invoked, closeCalls>>

\* OnCacheInvalidated(entityName, handler): the first handler of an entity is
\* kept and its receive loop started; a call for an entity that has a
\* handler changes nothing
OnCacheInvalidated(e, h) ==
    /\ async
    /\ loops[<<"inv", e>>].calls < MaxRegistrations
    /\ IF handlers[e] = NoHandler
       THEN /\ handlers' = [handlers EXCEPT ![e] = h]
            /\ loops' = [loops EXCEPT ![<<"inv", e>>] =
                    [st |-> "listening", channel |-> Sprintf(Prefix("inv"), e),
                     started |-> @.started + 1, calls |-> @.calls + 1]]
       ELSE /\ handlers' = handlers
            /\ loops' = [loops EXCEPT ![<<"inv", e>>].calls = @ + 1]
    /\ UNCHANGED <<dal, router, bus, publisher, isClosed, async, conn, flushListHandlers,
                   invoked, closeCalls>>

\* OnCacheFlushList(entityName, handler)
OnCacheFlushList(e, h) ==
    /\ async
    /\ loops[<<"flush", e>>].calls < MaxRegistrations
    /\ IF flushListHandlers[e] = NoHandler
       THEN /\ flushListHandlers' = [flushListHandlers EXCEPT ![e] = h]
            /\ loops' = [loops EXCEPT ![<<"flush", e>>] =
                    [st |-> "listening", channel |-> Sprintf(Prefix("flush"), e),
                     started |-> @.started + 1, calls |-> @.calls + 1]]
       ELSE /\ flushListHandlers' = flushListHandlers
            /\ loops' = [loops EXCEPT ![<<"flush", e>>].calls = @ + 1]
    /\ UNCHANGED <<dal, router, bus, publisher, isClosed, async, conn, handlers, invoked,
                   closeCalls>>

\* listenForInvalidations(entityName): a message arrives on the loop's
\* channel and the handler of the loop's entity is called with its payload
listenForInvalidations(l, m) ==
    /\ l[1] = "inv"
    /\ loops[l].st = "listening"
    /\ m \in bus
    /\ m.to = l
    /\ bus' = bus \ {m}
    /\ IF handlers[l[2]] # NoHandler
       THEN /\ loops' = [loops EXCEPT ![l].st = "handling"]
            /\ invoked' = [h |-> handlers[l[2]], payload |-> m.payload]
       ELSE UNCHANGED <<loops, invoked>>
    /\ UNCHANGED <<dal, router, publisher, isClosed, async, conn, handlers,
                   flushListHandlers, closeCalls>>

\* listenForFlushList(entityName): the flush handler of the loop's entity is
\* called, without argument
listenForFlushList(l, m) ==
    /\ l[1] = "flush"
    /\ loops[l].st = "listening"
    /\ m \in bus
    /\ m.to = l
    /\ bus' = bus \ {m}
    /\ IF flushListHandlers[l[2]] # NoHandler
       THEN /\ loops' = [loops EXCEPT ![l].st = "handling"]
            /\ invoked' = [h |-> flushListHandlers[l[2]], payload |-> ""]
       ELSE UNCHANGED <<loops, invoked>>
    /\ UNCHANGED <<dal, router, publisher, isClosed, async, conn, handlers,
                   flushListHandlers, closeCalls>>

\* the handler returns and the loop waits for the next message
HandlerReturns(l) ==
    /\ loops[l].st = "handling"
    /\ loops' = [loops EXCEPT ![l].st = "listening"]
    /\ UNCHANGED <<dal, router, bus, publisher, isClosed, async, conn, handlers,
                   flushListHandlers, invoked, closeCalls>>

\* a message nobody hears: its channel has no subscriber, or the client was
\* closed before the message reached the loop
Lost(m) ==
    /\ m \in bus
    /\ m.to = NoLoop \/ isClosed
    /\ bus' = bus \ {m}
    /\ UNCHANGED <<dal, router, publisher, transport>>

\* a loop that goes on waiting on a closed client
LoopWaits(l) ==
    /\ isClosed
    /\ loops[l].st = "listening"
    /\ UNCHANGED vars

\* for msg := range pubsub.Channel() ends: the client is closed and nothing
\* more arrives
LoopExit(l) ==
    /\ isClosed
    /\ loops[l].st = "listening"
    /\ \A m \in bus : m.to # l
    /\ loops' = [loops EXCEPT ![l].st = "exited"]
    /\ UNCHANGED <<dal, router, bus, publisher, isClosed, async, conn, handlers,
                   flushListHandlers, invoked, closeCalls>>

\* Close(): under the mutex, nothing when already closed; otherwise the
\* context is cancelled, the client closed and isClosed set
Close ==
    /\ async
    /\ closeCalls < MaxCloses
    /\ closeCalls' = closeCalls + 1
    /\ IF isClosed THEN UNCHANGED isClosed ELSE isClosed' = TRUE
    /\ UNCHANGED <<dal, router, bus, publisher, async, conn, handlers, flushListHandlers,
                   loops, invoked>>

\* a connected provider on its own
InitBus ==
    /\ rows = [id \in {1} |-> NoEnt]
    /\ nextId = 1
    /\ cache = [i \in Inst |-> [id \in {1} |-> NoEnt]]
    /\ colCache = [i \in Inst |-> [k \in ColKeys |-> 0]]
    /\ listCache = [i \in Inst |-> [k \in ListKeys |-> NoList]]
    /\ countCache = [i \in Inst |-> -1]
    /\ entityName = "user"
    /\ live = {}
    /\ listInvalidation = "flush"
    /\ bus = {}
    /\ cb = [i \in Inst |-> Closed]
    /\ dbMode = "ok"
    /\ blockedReads = FALSE
    /\ blockedWrites = FALSE
    /\ th = [c \in Callers |-> Idle]
    /\ birthdate = [id \in {1} |-> 0]
    /\ ObjectsInit
    /\ tasks = EmptyBag
    /\ cacheErrorCounter = 0
    /\ isClosed = FALSE
    /\ async = TRUE
    /\ conn = NoConn
    /\ SubscriberInit
    /\ RouterInit

NextBus ==
    \/ \E e \in BusEntities :
          handlers[e] = NoHandler /\ OnCacheInvalidated(e, Callback("inv", e))
    \/ \E e \in BusEntities :
          flushListHandlers[e] = NoHandler /\ OnCacheFlushList(e, Callback("flush", e))
    \/ \E e \in BusEntities : \E k \in BusKeys : RedisInvalidateCache(e, k)
    \/ \E e \in BusEntities : RedisFlushListCache(e)
    \/ \E t \in BagToSet(tasks) : \E ok \in BOOLEAN : PublishAttempt(t, ok)
    \/ \E t \in BagToSet(tasks) : PublishSleep(t)
    \/ \E l \in LoopIds : \E m \in bus : listenForInvalidations(l, m)
    \/ \E l \in LoopIds : \E m \in bus : listenForFlushList(l, m)
    \/ \E l \in LoopIds : HandlerReturns(l)
    \/ \E m \in bus : Lost(m)

SpecBus == InitBus /\ [][NextBus]_vars

----------------------------------------------------------------------------
(* Delivery per entity and kind *)

\* the messages published and those a goroutine is still to publish
InFlight == bus \cup UNION {t.out : t \in BagToSet(tasks)}

\* a message has no other receiver than the loop of its entity and kind
C24_Addressed ==
    \A m \in InFlight : m.to \in {NoLoop, <<m.kind, m.entity>>}

\* loop l calls a handler for message m in this step
Invokes(l, m) ==
    /\ m \in bus
    /\ m \notin bus'
    /\ loops[l].st = "listening"
    /\ loops'[l].st = "handling"

\* the handler called for a message is the one registered for the message's
\* entity and kind, with the key as payload for an invalidation, and no
\* other loop moves
C24_Invokes ==
    \A l \in LoopIds : \A m \in bus :
        Invokes(l, m)
            => /\ l = <<m.kind, m.entity>>
               /\ invoked'.h = Callback(m.kind, m.entity)
               /\ invoked'.h = IF m.kind = "inv" THEN handlers[m.entity]
                                ELSE flushListHandlers[m.entity]
               /\ m.kind = "inv" => invoked'.payload = m.payload
               /\ \A k \in LoopIds \ {l} : loops'[k] = loops[k]

\* C24: bus delivery is per entity and per message kind: an invalidation
\* published for entity E with cache key K invokes the invalidation handler
\* registered for E with payload exactly K, and neither a handler of another
\* entity nor a flush-list handler; a flush-list message for E invokes only
\* E's flush-list handler
C24_Theorem == []C24_Addressed /\ [][C24_Invokes]_vars

\* with the four handlers registered, the invalidation handler of "test2"
\* is running with payload "key2"
C24_Witness ==
    /\ \A l \in LoopIds : loops[l].st # "none"
    /\ loops[<<"inv", <<"t", "e", "s", "t", "2">>>>].st = "handling"
    /\ invoked = [h |-> Callback("inv", <<"t", "e", "s", "t", "2">>), payload |-> "key2"]
    /\ \A l \in LoopIds \ {<<"inv", <<"t", "e", "s", "t", "2">>>>} : loops[l].st = "listening"

----------------------------------------------------------------------------
(* The default gate *)

\* DefaultConfigProvider: BlockedReads and BlockedWrites both return true
DefaultConfigProvider == [BlockedReads |-> TRUE, BlockedWrites |-> TRUE]

\* NewUserDAL(failingProvider, NoopCacheProvider{}, DefaultConfigProvider{},
\* settings) with ReadyToTrip: ConsecutiveFailures > 1
InitDefault ==
    /\ rows = [id \in Ids |-> NoEnt]
    /\ nextId = 1
    /\ cache = [i \in Inst |-> [id \in Ids |-> NoEnt]]
    /\ colCache = [i \in Inst |-> [k \in ColKeys |-> 0]]
    /\ listCache = [i \in Inst |-> [k \in ListKeys |-> NoList]]
    /\ countCache = [i \in Inst |-> -1]
    /\ entityName = "user"
    /\ live = {}
    /\ listInvalidation = "flush"
    /\ bus = {}
    /\ cb = [i \in Inst |-> Closed]
    /\ dbMode = "routerFail"
    /\ blockedReads = DefaultConfigProvider.BlockedReads
    /\ blockedWrites = DefaultConfigProvider.BlockedWrites
    /\ th = [c \in Callers |-> Idle]
    /\ birthdate = [id \in Ids |-> 0]
    /\ ExtInit

\* the operations of two callers on that access object
NextDefault ==
    \/ \E c \in Callers : \E id \in Ids : GetByID(c, "A", id)
    \/ \E c \in Callers : \E v \in Emails : GetByEmail(c, "A", v)
    \/ \E c \in Callers : \E k \in ListKeys : List(c, "A", k[1], k[2])
    \/ \E c \in Callers : Count(c, "A")
    \/ \E c \in Callers : \E e \in CreateInputs : Create(c, "A", e)
    \/ \E c \in Callers : \E e \in UpdateInputs : Update(c, "A", e)
    \/ \E c \in Callers : \E id \in Ids : Delete(c, "A", id)
    \/ \E c \in Callers : \E batch \in BulkInputs : CreateBulk(c, "A", batch)
    \/ \E c \in Callers : \E e \in UpdateInputs : Store(c, "A", e)
    \/ \E m \in {"ok", "routerFail", "storeFail"} : SetDbMode(m)

SpecDefault == InitDefault /\ [][NextDefault]_vars

\* C25: an access object built with the default gate blocks nothing:
\* BlockedReads and BlockedWrites are false, so its read and write operations
\* reach the cache and the breaker-wrapped store call, and failing GetByID
\* calls open the breaker
C25_Claim ==
    /\ ~blockedReads
    /\ ~blockedWrites
    /\ \A c \in Callers : th[c].pc = "done" => th[c].res # "Blocked"

\* with the default gate every operation returns the blocked error at once
\* and the breaker stays closed with no failure counted
C25_Blocked ==
    /\ \A c \in Callers : th[c].pc \in {"idle", "done"}
    /\ \A c \in Callers : th[c].pc = "done" => th[c].res = "Blocked" /\ th[c].calls = 0
    /\ cb["A"] = Closed
    /\ \A id \in Ids : cache["A"][id] = NoEnt

----------------------------------------------------------------------------
(* Store Router: the jump consistent hash.  A uint64 is eight bytes, the    *)
(* lowest first, so that the multiplication wraps at 2^64 as in the code.  *)

Byte == 256

\* the uint64 of a small number
U64(k) == <<k % Byte, (k \div Byte) % Byte, 0, 0, 0, 0, 0, 0>>

\* uint64(id) of the ids -1 and -2^63
MaxU64 == <<255, 255, 255, 255, 255, 255, 255, 255>>
TopU64 == <<0, 0, 0, 0, 0, 0, 0, 128>>

\* the shard keys resolved
HashKeys == {U64(k) : k \in 0..MaxKey} \cup {MaxU64, TopU64}

\* 2862933555777941757
Multiplier == <<253, 176, 176, 135, 230, 46, 187, 39>>

\* the sum of the byte products that land on byte p of key * Multiplier
RECURSIVE Column(_, _, _)
Column(key, p, i) ==
    IF i > p THEN 0
    ELSE key[i] * Multiplier[p + 1 - i] + Column(key, p, i + 1)

RECURSIVE MulAdd(_, _, _)
MulAdd(key, p, carry) ==
    IF p > 8 THEN <<>>
    ELSE LET sum == Column(key, p, 1) + carry
         IN  <<sum % Byte>> \o MulAdd(key, p + 1, sum \div Byte)

\* key*2862933555777941757 + 1
Lcg(key) == MulAdd(key, 1, 1)

\* key >> 33, as its high and low 16 bits
Shift33(key) ==
    [hi |-> (key[7] \div 2) + key[8] * 128,
     lo |-> (key[5] \div 2) + key[6] * 128 + (key[7] % 2) * 32768]

\* q * ((key>>33) + 1) <= (j+1) * 2^31, compared in units of 2^16
Within(q, key, j) ==
    LET h    == Shift33(key)
        low  == q * (h.lo + 1)
        high == q * h.hi + (low \div 65536)
    IN  \/ high < (j + 1) * 32768
        \/ high = (j + 1) * 32768 /\ low % 65536 = 0

\* int64(float64(j+1) * (float64(1<<31) / float64((key>>33)+1))), as far
\* as the loop's test j < numBuckets can tell: for the bucket counts here
\* the float64 product is the exact quotient rounded down
Jump(j, key, numBuckets) ==
    CHOOSE q \in 0..numBuckets :
        /\ Within(q, key, j)
        /\ q < numBuckets => ~Within(q + 1, key, j)

RECURSIVE jumpLoop(_, _, _, _)
jumpLoop(b, j, key, numBuckets) ==
    IF j < numBuckets
    THEN LET next == Lcg(key)
         IN  jumpLoop(j, Jump(j, next, numBuckets), next, numBuckets)
    ELSE b

\* modulo hashing
moduloHash(key, numBuckets) == (key[1] + key[2] * Byte) % numBuckets

jumpConsistentHash(key, numBuckets) == jumpLoop(-1, 0, key, numBuckets)

----------------------------------------------------------------------------
(* Store Router: ServerProvider (server groups) and DefaultServerProvider   *)
(* (entities with instances or shards)                                      *)

UpperCase == <<"U", "S", "E", "R">>
LowerCase == <<"u", "s", "e", "r">>

\* the lower-case form of a letter
ToLower(ch) ==
    IF \E i \in DOMAIN UpperCase : UpperCase[i] = ch
    THEN LowerCase[CHOOSE i \in DOMAIN UpperCase : UpperCase[i] = ch]
    ELSE ch

\* strings.EqualFold
EqualFold(a, b) ==
    /\ Len(a) = Len(b)
    /\ \A i \in DOMAIN a : ToLower(a[i]) = ToLower(b[i])

\* the entity names resolved and configured
RouterNames == {<<"u","s","e","r">>, <<"U","s","e","r">>, <<"o","r","d","e","r">>}

GroupNames == {"main", "archive"}

\* the connections Connect opened for a list of n instances
Connections(owner, list, n) == [i \in 1..n |-> <<owner, list, i>>]

\* a server group after Connect
dbGroup(name, ents, nr, nw) ==
    [name |-> name, entities |-> ents,
     reads |-> Connections(name, "reads", nr),
     writes |-> Connections(name, "writes", nw)]

EntityLists == {<<>>, <<<<"U","s","e","r">>>>, <<<<"o","r","d","e","r">>, <<"u","s","e","r">>>>}

\* ServerProvider.groups after Connect, for the configurations followed
GroupConfigs ==
    UNION {[G -> {dbGroup("", ents, nr, nw) :
                     ents \in EntityLists, nr \in 0..MaxInstances,
                     nw \in 0..MaxInstances}] : G \in SUBSET GroupNames}

Named(cfg) ==
    [g \in DOMAIN cfg |->
        dbGroup(g, cfg[g].entities, Len(cfg[g].reads), Len(cfg[g].writes))]

\* the groups that list the entity; the loop over the map returns the first
\* one it meets, and the order of a map's iteration is not fixed
findGroupByEntity(en) ==
    {g \in DOMAIN groups :
        \E i \in DOMAIN groups[g].entities : EqualFold(groups[g].entities[i], en)}

Result(p, en, op, key, db, err, shard) ==
    [provider |-> p, entity |-> en, op |-> op, key |-> key, db |-> db,
     err |-> err, shard |-> shard]

\* a write taken from the read connections when there are some
pickAny(grp) == IF grp.reads # <<>> THEN grp.reads[1] ELSE grp.writes[1]

\* grp.writes[0]
pickWrite(grp) == grp.writes[1]

\* ServerProvider.GetDatabase(entityName, isWriteOperation)
GetDatabase(en, isWrite) ==
    /\ LET found == findGroupByEntity(en)
           op    == IF isWrite THEN "write" ELSE "read"
       IN  IF found = {}
           THEN resolved' = Result("server", en, op, <<>>, NoDb, "NoSettings", -1)
           ELSE \E g \in found :
                   LET grp == groups[g]
                   IN  IF isWrite
                       THEN IF Len(grp.writes) = 0
                            THEN resolved' = Result("server", en, op, <<>>, NoDb, "NoWrites", -1)
                            ELSE resolved' = Result("server", en, op, <<>>, pickWrite(grp), "", -1)
                       ELSE IF Len(grp.reads) = 0
                            THEN resolved' = Result("server", en, op, <<>>, NoDb, "NoReads", -1)
                            ELSE \E idx \in DOMAIN grp.reads :
                                    resolved' = Result("server", en, op, <<>>, grp.reads[idx], "", -1)
    /\ UNCHANGED <<groups, entities, dal, bus, provider>>

\* the nil *InstancesConfig
Nil == [nil |-> TRUE, Reads |-> <<>>, Writes |-> <<>>]

OperationRead == "read"
OperationWrite == "write"

\* an OperationType is an int: the two named ones and any other
OperationTypes == {OperationRead, OperationWrite, "other"}

\* EntityConfig of an entity without shards
Instances(nr, nw) ==
    [Instances |-> [nil |-> FALSE,
                    Reads |-> Connections("instances", "reads", nr),
                    Writes |-> Connections("instances", "writes", nw)],
     Shards |-> <<>>]

ShardConfig(i) ==
    [Reads |-> Connections(i, "reads", 1), Writes |-> Connections(i, "writes", 1)]

\* EntityConfig of an entity with n shards
Sharded(n) == [Instances |-> Nil, Shards |-> [i \in 1..n |-> ShardConfig(i)]]

EntityConfigs ==
    {Instances(nr, nw) : nr \in 0..MaxInstances, nw \in 0..MaxInstances}
        \cup {Sharded(n) : n \in 0..MaxBuckets}

\* dbMap after Connect: one connection for each instance configured
dbMap ==
    UNION {UNION ({ {ec.Shards[i].Reads[k] : k \in DOMAIN ec.Shards[i].Reads}
                      \cup {ec.Shards[i].Writes[k] : k \in DOMAIN ec.Shards[i].Writes}
                         : i \in DOMAIN ec.Shards}
                  \cup { {ec.Instances.Reads[k] : k \in DOMAIN ec.Instances.Reads},
                         {ec.Instances.Writes[k] : k \in DOMAIN ec.Instances.Writes} })
             : ec \in {entities[e] : e \in DOMAIN entities}}

\* pickInstanceDB: what it may return for a list of instances
pickInstanceDB(instances) ==
    IF Len(instances) = 0
    THEN {[db |-> NoDb, err |-> "NoInstances"]}
    ELSE {IF instances[i] \in dbMap
          THEN [db |-> instances[i], err |-> ""]
          ELSE [db |-> NoDb, err |-> "NoConnection"] : i \in DOMAIN instances}

\* DefaultServerProvider.GetDatabase(op, entityName, id); key is uint64(id)
DefaultGetDatabase(op, en, key) ==
    /\ IF en \notin DOMAIN entities
       THEN resolved' = Result("default", en, op, key, NoDb, "UnknownEntity", -1)
       ELSE LET entityCfg == entities[en]
            IN  IF Len(entityCfg.Shards) > 0
                THEN LET shardIndex == jumpConsistentHash(key, Len(entityCfg.Shards))
                         shardCfg   == entityCfg.Shards[shardIndex + 1]
                     IN  IF op = OperationRead
                         THEN \E r \in pickInstanceDB(shardCfg.Reads) :
                                 resolved' = Result("default", en, op, key, r.db, r.err, shardIndex)
                         ELSE IF op = OperationWrite
                         THEN \E r \in pickInstanceDB(shardCfg.Writes) :
                                 resolved' = Result("default", en, op, key, r.db, r.err, shardIndex)
                         ELSE resolved' = Result("default", en, op, key, NoDb, "NoMatch", shardIndex)
                ELSE IF ~entityCfg.Instances.nil /\ op = OperationRead
                THEN \E r \in pickInstanceDB(entityCfg.Instances.Reads) :
                        resolved' = Result("default", en, op, key, r.db, r.err, -1)
                ELSE IF ~entityCfg.Instances.nil /\ op = OperationWrite
                THEN \E r \in pickInstanceDB(entityCfg.Instances.Writes) :
                        resolved' = Result("default", en, op, key, r.db, r.err, -1)
                ELSE resolved' = Result("default", en, op, key, NoDb, "NoMatch", -1)
    /\ UNCHANGED <<groups, entities, dal, bus, provider>>

\* one of the two providers, connected
InitRouter ==
    /\ rows = [id \in {1} |-> NoEnt]
    /\ nextId = 1
    /\ cache = [i \in Inst |-> [id \in {1} |-> NoEnt]]
    /\ colCache = [i \in Inst |-> [k \in ColKeys |-> 0]]
    /\ listCache = [i \in Inst |-> [k \in ListKeys |-> NoList]]
    /\ countCache = [i \in Inst |-> -1]
    /\ entityName = "user"
    /\ live = {}
    /\ listInvalidation = "flush"
    /\ bus = {}
    /\ cb = [i \in Inst |-> Closed]
    /\ dbMode = "ok"
    /\ blockedReads = FALSE
    /\ blockedWrites = FALSE
    /\ th = [c \in Callers |-> Idle]
    /\ birthdate = [id \in {1} |-> 0]
    /\ ObjectsInit
    /\ ProviderInit
    /\ resolved = NoResult
    /\ \/ /\ groups \in {Named(cfg) : cfg \in GroupConfigs}
          /\ entities = <<>>
       \/ /\ groups = <<>>
          /\ entities \in UNION {[E -> EntityConfigs] :
                                   E \in SUBSET {<<"u","s","e","r">>}}

NextRouter ==
    \/ \E en \in RouterNames, isWrite \in BOOLEAN :
          entities = <<>> /\ GetDatabase(en, isWrite)
    \/ \E op \in OperationTypes, en \in RouterNames, key \in HashKeys :
          groups = <<>> /\ DefaultGetDatabase(op, en, key)

SpecRouter == InitRouter /\ [][NextRouter]_vars

----------------------------------------------------------------------------
(* Resolution of an entity without shards *)

Range(f) == {f[i] : i \in DOMAIN f}

\* the last resolution was of an entity that is not sharded
Unsharded ==
    /\ resolved.provider # "none"
    /\ resolved.op \in {OperationRead, OperationWrite}
    /\ resolved.provider = "default" /\ resolved.entity \in DOMAIN entities
           => Len(entities[resolved.entity].Shards) = 0

\* the handles configured for the entity of the last resolution, per list:
\* those of every server group that lists it, or those of its instances
Configured(list) ==
    IF resolved.provider = "server"
    THEN UNION {Range(groups[g][list]) : g \in findGroupByEntity(resolved.entity)}
    ELSE IF resolved.entity \in DOMAIN entities
    THEN Range(entities[resolved.entity].Instances[
                   IF list = "reads" THEN "Reads" ELSE "Writes"])
    ELSE {}

\* the server groups, or the instance set, that could serve the last
\* resolution and have a handle for its mode
Serving ==
    LET list == IF resolved.op = OperationWrite THEN "writes" ELSE "reads"
    IN  IF resolved.provider = "server"
        THEN {g \in findGroupByEntity(resolved.entity) : groups[g][list] # <<>>}
        ELSE IF Configured(list) # {} THEN {"instances"} ELSE {}

C26_Write ==
    (Unsharded /\ resolved.op = OperationWrite /\ resolved.err = "")
        => /\ resolved.db \in Configured("writes")
           /\ resolved.db \notin Configured("reads")

C26_Read ==
    (Unsharded /\ resolved.op = OperationRead /\ resolved.err = "")
        => resolved.db \in Configured("reads")

C26_Error ==
    Unsharded
        => /\ (resolved.err # "") <=> (resolved.db = NoDb)
           /\ Serving = {} => resolved.err # ""

C26_NoReads ==
    /\ Unsharded
    /\ resolved.op = OperationRead
    /\ resolved.err # ""
    /\ Configured("writes") # {}

----------------------------------------------------------------------------
(* Resolution of a sharded entity *)

\* the last resolution was of an entity with shards
ShardedResolution ==
    /\ resolved.provider = "default"
    /\ resolved.entity \in DOMAIN entities
    /\ Len(entities[resolved.entity].Shards) >= 1

\* the number of shards of the entity resolved last
Buckets == Len(entities[resolved.entity].Shards)

\* C27: jumpConsistentHash(key, n) with n >= 1 depends on key and n only and
\* is a bucket in 0..n-1, and with n+1 buckets the key has the same bucket
\* or the new bucket n
C27_Theorem ==
    ShardedResolution
        => /\ resolved.shard \in 0..(Buckets - 1)
           /\ resolved.shard = jumpConsistentHash(resolved.key, Buckets)
           /\ jumpConsistentHash(resolved.key, Buckets + 1)
                  \in {resolved.shard, Buckets}
           /\ resolved.err = "" => resolved.db[1] = resolved.shard + 1

\* a key resolved to the last shard that has another bucket with one shard
\* less
C27_Witness ==
    /\ ShardedResolution
    /\ Buckets >= 3
    /\ resolved.shard = Buckets - 1
    /\ jumpConsistentHash(resolved.key, Buckets - 1) \notin {0, resolved.shard}

\* a key that keeps a bucket other than 0 when a shard is added
C27_Stays ==
    /\ ShardedResolution
    /\ resolved.shard > 0
    /\ jumpConsistentHash(resolved.key, Buckets + 1) = resolved.shard

----------------------------------------------------------------------------
(* Item ceiling *)

\* C28: the number of items in an instance's cache of single entities and
\* unique-column mappings never exceeds MaxItemsCount
C28_Claim == \A i \in Inst : ItemCount(i) <= MaxItemsCount

\* the single entities cached by an instance that holds no mapping never
\* exceed MaxItemsCount
C28_Entities ==
    \A i \in Inst :
        (\A k \in ColKeys : colCache[i][k] = 0) => ItemCount(i) <= MaxItemsCount

----------------------------------------------------------------------------
(* GetByID of an id without a row *)

\* caller c's GetByID makes its store call in this step, and the breaker
\* and the store let it through
C29_Store(c) ==
    /\ th[c].op = "GetByID"
    /\ th[c].pc = "miss"
    /\ th'[c] # th[c]
    /\ beforeRequest(cb[th[c].inst]).state # "open"
    /\ ~RouterFails /\ ~StoreFails

\* without a row the store call gives NotFound and no cache changes
C29_Missing ==
    \A c \in Callers :
        (C29_Store(c) /\ Row(th[c].ent.id) = NoEnt)
            => /\ th'[c].pc = "done"
               /\ th'[c].res = "NotFound"
               /\ th'[c].calls = th[c].calls + 1
               /\ UNCHANGED <<cache, colCache, listCache, countCache>>

\* a GetByID that is not blocked and finds no entry for its id goes on to
\* the store call
C29_Again ==
    \A c \in Callers :
        (/\ Ready(c)
         /\ th'[c] # th[c]
         /\ th'[c].op = "GetByID"
         /\ ~BlockedReads
         /\ cache[th'[c].inst][th'[c].ent.id] = NoEnt)
            => th'[c].pc = "miss"

\* with a row the store call reads it and GetByID returns it
C29_Found ==
    \A c \in Callers :
        /\ (C29_Store(c) /\ Row(th[c].ent.id) # NoEnt)
              => /\ th'[c].pc = "fill"
                 /\ th'[c].row = Row(th[c].ent.id)
        /\ (th[c].op = "GetByID" /\ th[c].pc = "fill" /\ th'[c] # th[c])
              => /\ th'[c].pc = "done"
                 /\ th'[c].res = "ok"
                 /\ th'[c].ent = th[c].row

\* no instance holds an entry for an id that no row ever had
C29_Never ==
    \A i \in Inst : \A id \in DOMAIN cache[i] :
        id >= nextId => cache[i][id] = NoEnt

\* C29: a GetByID that finds no cached entry and no stored row for its id
\* returns NotFound and changes no cache, so that each further GetByID of
\* the id makes the store call again, and once the row exists the store call
\* reads it and GetByID returns it
C29_Theorem ==
    []C29_Never /\ [][C29_Missing /\ C29_Again /\ C29_Found]_vars

\* a GetByID returned NotFound after its store call and left the cache of
\* its instance empty
C29_Witness ==
    \E c \in Callers :
        /\ th[c].op = "GetByID"
        /\ th[c].pc = "done"
        /\ th[c].res = "NotFound"
        /\ th[c].calls = 1
        /\ ItemCount(th[c].inst) = 0

\* a GetByID returned the row that another instance created
C29_Created ==
    \E c \in Callers :
        /\ th[c].op = "GetByID"
        /\ th[c].pc = "done"
        /\ th[c].res = "ok"
        /\ th[c].calls = 1
        /\ th[c].ent = rows[th[c].ent.id]

----------------------------------------------------------------------------
(* Shutdown of the bus provider *)

ShutdownEntity == <<"t","e","s","t">>

\* a provider with the handlers of one entity, publishing, receiving and
\* closed at any moment, once or twice
NextShutdown ==
    \/ /\ handlers[ShutdownEntity] = NoHandler
       /\ OnCacheInvalidated(ShutdownEntity, Callback("inv", ShutdownEntity))
    \/ /\ flushListHandlers[ShutdownEntity] = NoHandler
       /\ OnCacheFlushList(ShutdownEntity, Callback("flush", ShutdownEntity))
    \/ RedisInvalidateCache(ShutdownEntity, "key1")
    \/ RedisFlushListCache(ShutdownEntity)
    \/ \E t \in BagToSet(tasks) : \E ok \in BOOLEAN : PublishAttempt(t, ok)
    \/ \E t \in BagToSet(tasks) : PublishSleep(t)
    \/ \E l \in LoopIds : \E m \in bus : listenForInvalidations(l, m)
    \/ \E l \in LoopIds : \E m \in bus : listenForFlushList(l, m)
    \/ \E l \in LoopIds : HandlerReturns(l)
    \/ \E m \in bus : Lost(m)
    \/ \E l \in LoopIds : LoopExit(l)
    \/ Close

\* the next step of the receive loop l
LoopStep(l) ==
    \/ \E m \in bus : listenForInvalidations(l, m)
    \/ \E m \in bus : listenForFlushList(l, m)
    \/ HandlerReturns(l)
    \/ LoopExit(l)

\* the next step of a publish goroutine in the state t
TaskStep(t) ==
    \/ \E ok \in BOOLEAN : PublishAttempt(t, ok)
    \/ PublishSleep(t)

\* the states a publish goroutine of this provider can be in
TaskValues ==
    {[out |-> {Wire(l, Sprintf(Prefix(kind), ShutdownEntity), payload, kind,
                    ShutdownEntity)},
      att |-> att, st |-> st, wait |-> IF st = "sleep" THEN delay ELSE 0] :
        l \in {NoLoop, <<"inv", ShutdownEntity>>, <<"flush", ShutdownEntity>>},
        kind \in {"inv", "flush"}, payload \in {"", "key1"},
        att \in 0..maxRetries, st \in {"try", "sleep"}}

\* every goroutine that can take a step is scheduled, and the transport
\* drops what a closed client cannot receive
Scheduling ==
    /\ \A l \in LoopIds : WF_vars(LoopStep(l))
    /\ \A t \in TaskValues : WF_vars(TaskStep(t))
    /\ WF_vars(\E m \in bus : Lost(m))

SpecShutdown == InitBus /\ [][NextShutdown]_vars /\ Scheduling

Running(l) == loops[l].st \in {"listening", "handling"}

\* after Close every receive loop that runs exits
C30_LoopsExit ==
    \A l \in LoopIds : (isClosed /\ Running(l)) ~> (loops[l].st = "exited")

\* after Close no publish goroutine is left
C30_TasksEnd == isClosed ~> (tasks = EmptyBag)

\* a loop exits only while it waits for a message, never inside a handler,
\* and stays exited
C30_HandlerFirst ==
    \A l \in LoopIds :
        /\ (loops'[l].st = "exited" /\ loops[l].st # "exited")
              => loops[l].st = "listening"
        /\ loops[l].st = "exited" => loops'[l].st = "exited"

\* a Close of a closed provider changes nothing
C30_SecondClose ==
    (isClosed /\ closeCalls' # closeCalls)
        => UNCHANGED <<dal, router, bus, publisher, isClosed, async, conn, handlers,
                       flushListHandlers, loops, invoked>>

\* C30: after Close every receive loop exits, once the handler it is
\* running has returned, and every publish goroutine ends; a second Close
\* changes nothing
C30_Theorem ==
    /\ C30_LoopsExit
    /\ C30_TasksEnd
    /\ [][C30_HandlerFirst /\ C30_SecondClose]_vars

\* the provider was closed twice, its loops have exited, and a goroutine
\* that was retrying has given up
C30_Witness ==
    /\ closeCalls = 2
    /\ loops[<<"inv", ShutdownEntity>>].st = "exited"
    /\ loops[<<"flush", ShutdownEntity>>].st = "exited"
    /\ tasks = EmptyBag
    /\ cacheErrorCounter > 0

\* the provider is closed while a handler runs and a goroutine sleeps
C30_Busy ==
    /\ isClosed
    /\ \E l \in LoopIds : loops[l].st = "handling"
    /\ \E t \in BagToSet(tasks) : t.st = "sleep"

----------------------------------------------------------------------------
(* The breaker's state gauge *)

\* circuit_breaker_state: 0=closed, 1=half-open, 2=open
GaugeOf(state) ==
    CASE state = "closed" -> 0
      [] state = "halfopen" -> 1
      [] state = "open" -> 2

\* the gauge of the breaker b has the value of b's state
Reported(b) == b.gauge = GaugeOf(b.state)

\* C31: the state gauge of every breaker has the value of the breaker's
\* current state (0 closed, 1 half-open, 2 open): as the breaker stands, once
\* the next call has turned an expired open breaker half-open, and after
\* that call has succeeded or failed
C31_Theorem ==
    \A i \in Inst :
        /\ Reported(cb[i])
        /\ Reported(beforeRequest(cb[i]))
        /\ \A success \in BOOLEAN :
              Reported(afterRequest(beforeRequest(cb[i]), success))

\* an open breaker whose timeout has elapsed: its gauge is 2 and the next
\* call reports half-open
C31_Witness ==
    \E i \in Inst :
        /\ cb[i].state = "open"
        /\ cb[i].expired
        /\ cb[i].gauge = 2
        /\ beforeRequest(cb[i]).gauge = 1
        /\ afterRequest(beforeRequest(cb[i]), TRUE).gauge = 0

----------------------------------------------------------------------------
(* The generated list queries *)

\* what the claim asks of the queries generated for the list configuration
Generated(list) ==
    /\ listWhereQuery(FALSE, list) = (IF list.desc THEN "id < ?" ELSE "id > ?")
    /\ listWhereQuery(TRUE, list) = ""
    /\ \A k \in DOMAIN listQueryOrder(list) :
          listQueryOrder(list)[k][2] = (IF list.desc THEN "DESC" ELSE "ASC")
    /\ \A isStartIdZero \in BOOLEAN :
          Placeholders(isStartIdZero, list) = listQueryParams(isStartIdZero, list)

\* C32: for every list configuration the query for a non-zero cursor has
\* the strict id predicate of the sort direction, the query for cursor 0 has
\* none, both order in the declared direction, and the placeholders are as
\* many as the values bound
C32_Claim ==
    \A c \in Callers : th[c].op = "Paginate" => Generated(th[c].list)

\* the same for the lists that are ascending or name an order column
C32_Ordered ==
    \A c \in Callers :
        (th[c].op = "Paginate" /\ (~th[c].list.desc \/ th[c].list.order # ""))
            => Generated(th[c].list)

\* a descending list without order column fails at its second page
C32_SecondPage ==
    \E c \in Callers :
        /\ th[c].op = "Paginate"
        /\ th[c].list.desc /\ th[c].list.order = ""
        /\ th[c].pc = "done"
        /\ th[c].res = "StoreError"
        /\ th[c].calls = 2

----------------------------------------------------------------------------
(* Connecting the bus provider: RedisCacheProvider.Connect *)

\* durations are counted in 1/32 of a second, which keeps every product of
\* the loop exact
initialBackoff == 32

maxBackoff == 960

connectMaxRetries == 5

\* calls of Connect the application makes
MaxConnects == 3

\* backoff = time.Duration(float64(backoff) * 1.5), capped at maxBackoff
nextBackoff(backoff) ==
    LET n == (backoff * 3) \div 2
    IN  IF n > maxBackoff THEN maxBackoff ELSE n

\* the application calls Connect: the locals of the loop
ConnectCall ==
    /\ conn.pc \in {"idle", "done"}
    /\ conn.calls < MaxConnects
    /\ conn' = [pc |-> "ping", i |-> 0, backoff |-> initialBackoff, waits |-> <<>>,
                res |-> "none", lost |-> FALSE, calls |-> conn.calls + 1]
    /\ UNCHANGED <<dal, router, bus, publisher, isClosed, async, subscriber>>

\* one pass of the loop up to time.Sleep: a new client and a ping, which
\* succeeds or fails; success returns nil
ConnectPing(ok) ==
    /\ conn.pc = "ping"
    /\ conn' = IF ok
               THEN [conn EXCEPT !.pc = "done", !.res = "nil"]
               ELSE [conn EXCEPT !.pc = "sleep", !.waits = Append(@, conn.backoff)]
    /\ UNCHANGED <<dal, router, bus, publisher, isClosed, async, subscriber>>

\* the sleep ends: the next backoff, and either the next pass or, after the
\* last one, the error metric and the error
ConnectSleep ==
    /\ conn.pc = "sleep"
    /\ IF conn.i + 1 < connectMaxRetries
       THEN /\ conn' = [conn EXCEPT !.pc = "ping", !.i = @ + 1,
                                    !.backoff = nextBackoff(@)]
            /\ UNCHANGED cacheErrorCounter
       ELSE /\ conn' = [conn EXCEPT !.pc = "done", !.i = @ + 1,
                                    !.backoff = nextBackoff(@), !.res = "error"]
            /\ cacheErrorCounter' = cacheErrorCounter + 1
    /\ UNCHANGED <<dal, router, bus, tasks, isClosed, async, subscriber>>

\* the connection a successful Connect left is lost; no code of the provider
\* runs on that event
ConnectionLost ==
    /\ conn.pc = "done"
    /\ conn.res = "nil"
    /\ ~conn.lost
    /\ conn' = [conn EXCEPT !.lost = TRUE]
    /\ UNCHANGED <<dal, router, bus, publisher, isClosed, async, subscriber>>

NextConnect ==
    \/ ConnectCall
    \/ \E ok \in BOOLEAN : ConnectPing(ok)
    \/ ConnectSleep
    \/ ConnectionLost

SpecConnect == InitBus /\ [][NextConnect]_vars

\* at most five attempts; the waits start at one second, grow by half and
\* stay within thirty seconds; an error only after the fifth failure
Bounded ==
    /\ conn.i <= connectMaxRetries
    /\ Len(conn.waits) <= connectMaxRetries
    /\ \A k \in DOMAIN conn.waits :
          /\ conn.waits[k] <= maxBackoff
          /\ k = 1 => conn.waits[k] = initialBackoff
          /\ k > 1 => \/ 2 * conn.waits[k] = 3 * conn.waits[k - 1]
                      \/ conn.waits[k] = maxBackoff
    /\ conn.res = "error" => Len(conn.waits) = connectMaxRetries
    /\ conn.res = "nil" => Len(conn.waits) < connectMaxRetries

\* a successful ping returns success at once
FirstSuccess ==
    ConnectPing(TRUE) => conn'.pc = "done" /\ conn'.res = "nil" /\ conn'.waits = conn.waits

\* the error metric moves by one, exactly when Connect returns the error
MetricOnce ==
    /\ cacheErrorCounter' # cacheErrorCounter
          => conn'.res = "error" /\ conn.res # "error"
             /\ cacheErrorCounter' = cacheErrorCounter + 1
    /\ (conn'.res = "error" /\ conn.res # "error")
          => cacheErrorCounter' = cacheErrorCounter + 1

\* the part of C33 about the Connect call: bounded attempts and waits, success
\* at the first successful ping, one metric increment with the error
C33_Bounded == []Bounded /\ [][FirstSuccess /\ MetricOnce]_vars

\* a lost connection has the provider connecting again
Reconnects == conn.lost => conn.pc \in {"ping", "sleep"}

\* C33: Connect returns success at the first successful ping, makes at most 5
\* attempts with waits that start at 1 second, grow by the factor 1.5 and never
\* exceed 30 seconds, returns an error and increments the error metric once
\* after the 5th failure, and the loss of the connection later triggers a
\* reconnect with the same kind of bounded backoff
C33_Claim == C33_Bounded /\ []Reconnects

\* a connection was lost after a Connect that succeeded on a later attempt
C33_LostConnection == conn.lost /\ Len(conn.waits) > 0

----------------------------------------------------------------------------
(* Coherence of the entity caches at rest *)

\* two instances over a table that holds the row of id 1, nothing cached yet
InitCoherent ==
    /\ rows = [id \in {1} |-> [id |-> 1, version |-> 0, email |-> "a"]]
    /\ nextId = 2
    /\ cache = [i \in Inst |-> [id \in {1} |-> NoEnt]]
    /\ colCache = [i \in Inst |-> [k \in ColKeys |-> 0]]
    /\ listCache = [i \in Inst |-> [k \in ListKeys |-> NoList]]
    /\ countCache = [i \in Inst |-> -1]
    /\ entityName = "user"
    /\ live = {"A", "B"}
    /\ listInvalidation = "expire"
    /\ bus = {} /\ cb = [i \in Inst |-> Closed] /\ dbMode = "ok"
    /\ blockedReads = FALSE /\ blockedWrites = FALSE
    /\ th = [c \in Callers |-> Idle]
    /\ birthdate = [id \in {1} |-> 0]
    /\ ExtInit

\* caller 1 works on instance A, caller 2 on instance B
Home(c) == IF c = 1 THEN "A" ELSE "B"

\* GetByID, Update and Delete of the row on both instances, in any
\* interleaving of their steps and of the bus's deliveries
NextCoherent ==
    \/ \E c \in Callers : GetByID(c, Home(c), 1)
    \/ \E c \in Callers : \E e \in UpdateInputs : First(e) /\ Update(c, Home(c), e)
    \/ \E c \in Callers : Delete(c, Home(c), 1)
    \/ \E c \in Callers : GetByIDRead(c)
    \/ \E c \in Callers : GetByIDFill(c)
    \/ \E c \in Callers : UpdateWrite(c)
    \/ \E c \in Callers : UpdatePost(c)
    \/ \E c \in Callers : DeleteExec(c)
    \/ \E c \in Callers : DeletePost(c)
    \/ \E m \in bus : Deliver(m)

SpecCoherent == InitCoherent /\ [][NextCoherent]_vars

\* every operation has returned and the bus has delivered every message
Quiescent == (\A c \in Callers : Ready(c)) /\ bus = {}

\* no entity cache holds an entry for a deleted row or an entry with another
\* version than the stored row
Coherent ==
    \A i \in Inst : \A id \in DOMAIN cache[i] :
        cache[i][id] # NoEnt =>
            /\ rows[id] # NoEnt
            /\ cache[i][id].version = rows[id].version

\* C34: for any interleaving of GetByID, Update and Delete on one id across
\* two instances, once every operation has returned and every bus message is
\* delivered and applied, no instance's entity cache holds an entry whose
\* version differs from the stored row or whose row has been deleted
C34_Claim == Quiescent => Coherent

\* the entries an instance holds for its own last write are those of the store
C34_Stale ==
    /\ Quiescent
    /\ \E i \in Inst : \E id \in DOMAIN cache[i] :
          cache[i][id] # NoEnt /\ rows[id] # NoEnt
          /\ cache[i][id].version < rows[id].version

----------------------------------------------------------------------------
(* Reads by the unique column on one instance *)

\* the DAL of either entity over an empty table with room for two rows
InitUnique ==
    /\ rows = [id \in BulkIds |-> NoEnt]
    /\ nextId = 1
    /\ cache = [i \in Inst |-> [id \in BulkIds |-> NoEnt]]
    /\ colCache = [i \in Inst |-> [k \in ColKeys |-> 0]]
    /\ listCache = [i \in Inst |-> [k \in ListKeys |-> NoList]]
    /\ countCache = [i \in Inst |-> -1]
    /\ entityName \in EntityNames
    /\ live = {"A"}
    /\ listInvalidation = "flush"
    /\ bus = {}
    /\ cb = [i \in Inst |-> Closed]
    /\ dbMode = "ok"
    /\ blockedReads = FALSE
    /\ blockedWrites = FALSE
    /\ th = [c \in Callers |-> Idle]
    /\ birthdate = [id \in BulkIds |-> 0]
    /\ ExtInit

\* One instance, one caller, no expiry: rows are created, updated, deleted
\* and read by email, one operation after the other.
NextUnique ==
    \/ \E v \in Emails : GetByEmail(1, "A", v)
    \/ \E e \in CreateInputs : Create(1, "A", e)
    \/ \E e \in UpdateInputs : e.id > 0 /\ Update(1, "A", e)
    \/ \E id \in TableIds : Delete(1, "A", id)
    \/ GetByIDRead(1) \/ GetByIDFill(1)
    \/ GetByEmailRead(1) \/ GetByEmailFill(1)
    \/ UpdateWrite(1) \/ UpdatePost(1)
    \/ CreateExec(1) \/ CreatePost(1)
    \/ DeleteExec(1) \/ DeletePost(1)
    \/ \E m \in bus : Deliver(m)

SpecUnique == InitUnique /\ [][NextUnique]_vars

\* the GetByEmail of caller c returns in this step
GetByEmailReturns(c) ==
    /\ th'[c] # th[c]
    /\ th'[c].op = "GetByEmail"
    /\ th'[c].pc = "done"

\* what GetByEmail returns, the breaker letting it through: the stored
\* entity with that email, NotFound when there is none
C35_Step ==
    \A c \in Callers :
        (GetByEmailReturns(c) /\ cb[th'[c].inst].state = "closed") =>
            LET n == th'[c]
            IN IF RowsByEmail(n.arg) = {}
               THEN n.res = "NotFound"
               ELSE n.res = "ok" /\ n.ent.id \in RowsByEmail(n.arg)
                    /\ n.ent = rows[n.ent.id]

\* C35: with one instance, no concurrency and no expiry, GetByEmail(v)
\* returns the stored entity whose email equals v, and NotFound exactly
\* when no stored row has that value, also after the row with v was
\* deleted and another one created with v, and after an Update changed the
\* email away from the empty value
C35_Claim == [][C35_Step]_vars

\* a GetByEmail returned NotFound while a row with that email is stored
C35_Recreated ==
    \E c \in Callers :
        /\ th[c].op = "GetByEmail" /\ th[c].pc = "done"
        /\ th[c].res = "NotFound"
        /\ RowsByEmail(th[c].arg) # {}
        /\ cb[th[c].inst].state = "closed"

----------------------------------------------------------------------------
(* Writes and the read gate *)

\* caller c starts Create, Update or Delete in this step while the gate
\* lets writes through
WriteStarts(c) ==
    /\ Ready(c)
    /\ th'[c] # th[c]
    /\ th'[c].op \in {"Create", "Update", "Delete"}
    /\ ~blockedWrites

\* the write is not refused by the gate, whatever the gate answers for reads;
\* an Update of the stored entity with its current version goes on to the
\* store
C36_Step ==
    \A c \in Callers :
        WriteStarts(c) =>
            /\ th'[c].op \in {"Create", "Delete"} => th'[c].res # "Blocked"
            /\ (th'[c].op = "Update" /\ Row(th'[c].ent.id) # NoEnt
                  /\ th'[c].ent.version = Row(th'[c].ent.id).version)
                 => th'[c].res # "Blocked" /\ th'[c].pc \in {"miss", "uwrite"}

\* C36: write operations depend only on the write gate: with reads blocked
\* and writes not blocked, an Update of an existing entity with the current
\* version is not refused, as Create and Delete are not
C36_Claim == [][C36_Step]_vars

\* Create and Delete do not look at the read gate
C36_Others ==
    [][\A c \in Callers :
          (WriteStarts(c) /\ th'[c].op \in {"Create", "Delete"})
              => th'[c].res # "Blocked"]_vars

\* an Update was refused while only reads were blocked
C36_Refused ==
    /\ blockedReads /\ ~blockedWrites
    /\ th[1].op = "Update" /\ th[1].pc = "done" /\ th[1].res = "Blocked"
    /\ Row(th[1].ent.id) # NoEnt
    /\ th[1].ent.version = Row(th[1].ent.id).version

----------------------------------------------------------------------------
(* Reads served from the cache and the breaker *)

\* One instance, one caller: rows are created, read by id, listed and
\* counted while entries expire, the store fails and recovers and the
\* breaker opens and its timeout elapses.
NextServe ==
    \/ \E id \in TableIds : GetByID(1, "A", id)
    \/ \E n \in PageSizes : List(1, "A", 0, n)
    \/ Count(1, "A")
    \/ \E e \in CreateInputs : Create(1, "A", e)
    \/ GetByIDRead(1) \/ GetByIDFill(1)
    \/ ListRead(1) \/ ListFill(1)
    \/ CountRead(1) \/ CountFill(1)
    \/ CreateExec(1) \/ CreatePost(1)
    \/ \E m \in bus : Deliver(m)
    \/ \E id \in TableIds : Expire("A", id)
    \/ \E m \in {"ok", "storeFail"} : SetDbMode(m)
    \/ BreakerTimeout("A")

SpecServe == InitFlush /\ [][NextServe]_vars

\* the operation returned successfully without a store call
Served(n) == n.pc = "done" /\ n.res = "ok" /\ n.calls = 0

\* a GetByID whose entity is cached, a List whose ids and entities are all
\* cached and a Count whose count is cached return the cached values at
\* once and do not touch the breaker
C37_Step ==
    \A c \in Callers :
        LET n == th'[c]
            i == n.inst
        IN (Ready(c) /\ n # th[c] /\ ~blockedReads) =>
             /\ (n.op = "GetByID" /\ cache[i][n.ent.id] # NoEnt) =>
                    /\ Served(n)
                    /\ n.ent = cache[i][n.ent.id]
                    /\ cb' = cb
             /\ (n.op = "List" /\ listCache[i][n.key].found
                   /\ \A x \in DOMAIN listCache[i][n.key].ids :
                         cache[i][listCache[i][n.key].ids[x]] # NoEnt) =>
                    /\ Served(n)
                    /\ n.seq = CachedEntities(i, listCache[i][n.key].ids)
                    /\ cb' = cb
             /\ (n.op = "Count" /\ countCache[i] # -1) =>
                    /\ Served(n)
                    /\ n.n = countCache[i]
                    /\ cb' = cb

\* C37: a read served from the cache (a GetByID hit, a List whose ids all
\* hit, a Count hit) succeeds while the breaker is open, makes no store
\* call and leaves the breaker's state and failure count unchanged
C37_Theorem == [][C37_Step]_vars

\* the breaker is open and its timeout has elapsed, and a List of two cached
\* entities has just been served
C37_Witness ==
    /\ cb["A"].state = "open" /\ cb["A"].expired
    /\ th[1].op = "List" /\ Served(th[1]) /\ th[1].lc = "hit"
    /\ Len(th[1].seq) = 2

\* the same for a GetByID and for a Count
C37_WitnessById ==
    /\ cb["A"].state = "open"
    /\ th[1].op = "GetByID" /\ Served(th[1]) /\ th[1].idc = "hit"

C37_WitnessCount ==
    /\ cb["A"].state = "open"
    /\ th[1].op = "Count" /\ Served(th[1]) /\ th[1].lc = "hit" /\ th[1].n = 2

----------------------------------------------------------------------------
(* Registering handlers more than once *)

\* the callbacks an application may pass for an entity's messages of a kind
Callbacks(kind, e) == {Callback(kind, e), <<"other", e>>}

\* the handler registered for the loop's entity and kind
HandlerOf(l) == IF l[1] = "inv" THEN handlers[l[2]] ELSE flushListHandlers[l[2]]

\* a provider whose application registers handlers of one entity up to
\* twice per kind, with the same or another callback, while messages are
\* published and received
NextRegister ==
    \/ \E h \in Callbacks("inv", ShutdownEntity) : OnCacheInvalidated(ShutdownEntity, h)
    \/ \E h \in Callbacks("flush", ShutdownEntity) : OnCacheFlushList(ShutdownEntity, h)
    \/ \E k \in BusKeys : RedisInvalidateCache(ShutdownEntity, k)
    \/ RedisFlushListCache(ShutdownEntity)
    \/ \E t \in BagToSet(tasks) : PublishAttempt(t, TRUE)
    \/ \E l \in LoopIds : \E m \in bus : listenForInvalidations(l, m)
    \/ \E l \in LoopIds : \E m \in bus : listenForFlushList(l, m)
    \/ \E l \in LoopIds : HandlerReturns(l)
    \/ \E m \in bus : Lost(m)

SpecRegister == InitBus /\ [][NextRegister]_vars

\* at most one receive loop per entity and kind, and a loop exactly where a
\* handler is registered
OneLoop ==
    \A l \in LoopIds :
        /\ loops[l].started <= 1
        /\ loops[l].started = 1 <=> HandlerOf(l) # NoHandler
        /\ loops[l].started = 1 <=> loops[l].st # "none"
        /\ loops[l].calls > 0 => HandlerOf(l) # NoHandler

\* a registered handler is never replaced and no loop is started for an
\* entity and kind that has one
FirstKept ==
    \A l \in LoopIds :
        HandlerOf(l) # NoHandler =>
            /\ HandlerOf(l)' = HandlerOf(l)
            /\ loops'[l].started = loops[l].started

\* a loop that takes a message calls the registered handler with the payload
\* of that one message, which leaves the transport
InvokedOnce ==
    \A l \in LoopIds :
        (loops[l].st = "listening" /\ loops'[l].st = "handling") =>
            \E m \in bus :
                /\ m.to = l
                /\ bus' = bus \ {m}
                /\ invoked' = [h |-> HandlerOf(l),
                               payload |-> IF l[1] = "inv" THEN m.payload ELSE ""]
                /\ \A k \in LoopIds \ {l} : loops'[k] = loops[k]

\* C38: per entity and kind there is at most one receive loop and exactly
\* one handler; registering again starts no second loop and does not replace
\* the first handler; a received message invokes the first registered handler
\* exactly once
C38_Theorem == []OneLoop /\ [][FirstKept /\ InvokedOnce]_vars

\* the invalidation handler was registered twice and the flush handler twice,
\* each has one loop, and the invalidation loop is running the handler on
\* the payload of a message
C38_Witness ==
    /\ loops[<<"inv", ShutdownEntity>>].calls = 2
    /\ loops[<<"flush", ShutdownEntity>>].calls = 2
    /\ loops[<<"inv", ShutdownEntity>>].started = 1
    /\ loops[<<"inv", ShutdownEntity>>].st = "handling"
    /\ handlers[ShutdownEntity] = <<"other", ShutdownEntity>>
    /\ invoked = [h |-> <<"other", ShutdownEntity>>, payload |-> "key2"]

----------------------------------------------------------------------------
(* Input errors and the breaker *)

\* the batch is refused for what it is: empty, or with an entity that has an id
InputError(batch) == Len(batch) = 0 \/ \E k \in 1..Len(batch) : batch[k].id > 0

\* the breaker of instance i counts no failure in this step and does not open
NotCounted(i) ==
    /\ cb'[i].fails <= cb[i].fails
    /\ cb[i].state = "closed" => cb'[i].state = "closed"

\* a Create of an entity with an id that the gate lets through returns the
\* error without a store call and without a failure counted
C39_CreateStep ==
    \A c \in Callers :
        (Ready(c) /\ th'[c] # th[c] /\ th'[c].op = "Create"
           /\ th'[c].ent.id > 0 /\ ~blockedWrites) =>
            /\ th'[c].pc = "done" /\ th'[c].res = "InvalidArg"
            /\ th'[c].calls = 0
            /\ NotCounted(th'[c].inst)

\* the same for a CreateBulk of an empty batch or of a batch with an entity
\* that has an id
C39_BulkStep ==
    \A c \in Callers :
        (th[c].op = "CreateBulk" /\ th[c].pc = "bexec" /\ th'[c] # th[c]
           /\ InputError(th[c].seq)) =>
            /\ th'[c].pc = "done" /\ th'[c].res \notin {"ok", "none"}
            /\ th'[c].calls = 0
            /\ NotCounted(th[c].inst)

\* C39: input errors (Create of an entity with id > 0, CreateBulk of an empty
\* batch or of a batch with an entity with id > 0) return an error without a
\* store call and without increasing the breaker's consecutive-failure
\* count, so repeating them never opens the breaker
C39_Claim == [][C39_CreateStep /\ C39_BulkStep]_vars

\* the part of C39 about Create
C39_Create == [][C39_CreateStep]_vars

\* the breaker is open after CreateBulk calls that failed on their input only
C39_Opened ==
    /\ cb["A"].state = "open"
    /\ th[1].op = "CreateBulk" /\ th[1].pc = "done" /\ th[1].res = "InputError"
    /\ \A id \in TableIds : rows[id] = NoEnt
    /\ dbMode = "ok"

----------------------------------------------------------------------------
(* Mutations that fail *)

\* One instance, one caller: every mutation, CreateBulk included, while
\* entries expire, the store fails and recovers and the breaker's timeout
\* elapses.
NextFail ==
    \/ StartWrite(1, "A")
    \/ \E batch \in BulkInputs : CreateBulk(1, "A", batch)
    \/ GetByIDRead(1) \/ GetByIDFill(1)
    \/ UpdateWrite(1) \/ UpdatePost(1)
    \/ CreateExec(1) \/ CreatePost(1)
    \/ DeleteExec(1) \/ DeletePost(1)
    \/ BulkExec(1) \/ BulkPost(1)
    \/ \E m \in bus : Deliver(m)
    \/ \E id \in Ids : Expire("A", id)
    \/ \E m \in {"ok", "storeFail"} : SetDbMode(m)
    \/ BreakerTimeout("A")

SpecFail == InitUser /\ [][NextFail]_vars

\* a mutation of caller c returns an error in this step
MutationFails(c) ==
    /\ th'[c] # th[c]
    /\ th'[c].op \in {"Create", "CreateBulk", "Delete", "Update"}
    /\ th'[c].pc = "done"
    /\ th'[c].res # "ok"

\* the error is the NotFound of Update's conditional write
Conflict(c) == th[c].pc = "uwrite" /\ th'[c].res = "NotFound"

\* the step in which a mutation fails changes no cache and hands nothing to
\* the bus, except that the NotFound of the conditional write evicts the
\* entity's entry
C40_Step ==
    \A c \in Callers :
        MutationFails(c) =>
            IF Conflict(c)
            THEN /\ cache' = IF th[c].ent.id \in DOMAIN cache[th[c].inst]
                             THEN [cache EXCEPT ![th[c].inst][th[c].ent.id] = NoEnt]
                             ELSE cache
                 /\ UNCHANGED <<colCache, listCache, countCache>>
            ELSE UNCHANGED <<cache, colCache, listCache, countCache, bus>>

\* an Update that found no entry for its id when it was called still has
\* none when it fails
C40_Before ==
    \A c \in Callers :
        (MutationFails(c) /\ ~Conflict(c) /\ th[c].op = "Update"
           /\ th[c].idc = "miss" /\ th[c].ent.id \in DOMAIN cache[th[c].inst]) =>
            cache[th[c].inst][th[c].ent.id] = NoEnt

\* C40: a failed mutation (Create, CreateBulk or Delete failing, Update
\* failing with a store error or with the breaker open) leaves the caches as
\* they were before the call and hands no message to the bus; only an Update
\* failing with the NotFound of its conditional write changes the cache, by
\* evicting the entry of that id
C40_Claim == [][C40_Step /\ C40_Before]_vars

\* C40 as it holds: the failure changes no cache and hands nothing to the
\* bus, the NotFound of the conditional write evicts the entry of that id,
\* and the entry an Update's own GetByID cached before the write stays
C40_Theorem == [][C40_Step]_vars

\* an Update missed the cache, read and cached the stored row, and its write
\* failed in the store: the entry it cached is there
C40_Witness ==
    /\ th[1].op = "Update" /\ th[1].pc = "done" /\ th[1].res = "StoreError"
    /\ th[1].idc = "miss" /\ th[1].calls = 2
    /\ cache["A"][th[1].ent.id] = Row(th[1].ent.id)
    /\ Row(th[1].ent.id) # NoEnt

====
